---- MODULE Spec2Model ----
(***************************************************************************)
(* State-machine model of the document-sharing core of Describble (ddnet): *)
(* Document, DocumentHeader, MessageExchanger and DocumentSharingClient.   *)
(*                                                                         *)
(* Three specifications share the module:                                  *)
(*   SpecDocument  - one Document object and every public method on it     *)
(*   SpecExchanger - MessageExchanger.handle over inbound messages         *)
(*   Spec          - a DocumentSharingClient: registry, storage, peers,    *)
(*                   and its asynchronous message handlers                 *)
(***************************************************************************)
EXTENDS Integers, Sequences, FiniteSets, TLC

\* ------------------------------------------------------------------ state

VARIABLES
    \* SpecDocument
    doc,            \* the Document object under test: header, data, destroyed
    lastOp,         \* the last method called on it: name, argument, state
                    \* before, return value and the events it emitted
    \* SpecExchanger
    clientHandler,  \* the signaling client the exchanger is set to, or "none"
    listeners,      \* per signaling client: the exchanger's message listeners
    exLast,         \* the last inbound message and what each listener run did
    exDropped,      \* inbound messages rejected so far (2 = two or more)
    lastSend,       \* the last sendMessage on the exchanger: its arguments, how
                    \* it settled and the calls it made on the signaling client
    \* Spec (DocumentSharingClient)
    documents,      \* DocumentRegistry: the live documents by id
    addedTask,      \* per id: where its document-added handler is
    storage,        \* Storage: the header and binary records by id
    pendingWrites,  \* the ids with a storage.setDocument or save in flight
    tasks,          \* per sender: its request-document or signal handler in
                    \* flight
    peers,          \* PeerManager: the live peers
    sent,           \* the messages the last step handed to the signaling client
    clientEvents,   \* the events the last step emitted on the client
    docAdded,       \* per id: document-added events emitted (2 = more than one)
    request,        \* the requestDocument call of the application: its id, the
                    \* race of the document-<id> event with the timer, and how
                    \* the returned promise settled
    \* SpecSync (two DocumentSharingClients sharing one document)
    replica,        \* per client: the document its registry holds, if any
    synchronizers,  \* per client: whether the document's synchronizer exists,
                    \* whether it holds the peer, and the peer's sync state
    rtc,            \* per client: the state of its peer for the document
    signaling,      \* per client: the signaling messages on their way to it
    channel,        \* per client: the sync messages on their way to it over
                    \* the peer
    added,          \* per client: where its document-added handler is
    requested,      \* whether the second client has called requestDocument
    response,       \* the document-response whose handler has just run, and
                    \* the error of its import
    connected,      \* whether the signaling client is connected
    jobs,           \* per document id: the calls of the storage that have not
                    \* ended, in the order they were made
    timer,          \* per document id: the timer of its throttled save
    faults,         \* how many binary writes have failed
    syncMap,        \* this.synchronizers: per document id that has one, the
                    \* peers its synchronizer holds
    destroyedDocs,  \* per deleted id: the destroyed Document, which the
                    \* storage calls and timers made for it still hold
    deletion,       \* per document id: where its deleteDocument call is
    ws,             \* a WebSocketConnection: its socket, its listeners and
                    \* the events it has emitted
    setLog,         \* the setClient calls on the exchanger so far: the client
                    \* it was set to before the current one, and whether
                    \* setClient was called again with the current one
    connecting,     \* the Deferred of the client: its current promise and
                    \* the promises resolved so far; with them, how many
                    \* connect() calls were made and which of them a connect
                    \* event has followed
    waits           \* the waitForConnection calls made so far

docVars == <<doc, lastOp>>

exVars == <<clientHandler, listeners, exLast, exDropped, lastSend>>

clientVars ==
    <<documents, addedTask, storage, pendingWrites, tasks, peers, sent,
      clientEvents, docAdded, request>>

syncVars ==
    <<replica, synchronizers, rtc, signaling, channel, added, requested>>

pipeVars == <<jobs, timer, faults>>

sideVars == <<destroyedDocs, deletion, ws, setLog, connecting, waits>>

moreVars == <<syncMap, sideVars>>

restVars == <<response, connected, pipeVars, moreVars>>

vars == <<docVars, exVars, clientVars, syncVars, restVars>>

\* ------------------------------------------------------------------ bounds

\* Highest header version that is ever offered.
MaxVersion == 2

\* Most changes the application makes to a document in the storage pipeline.
MaxBurst == 2

\* Most binary writes of the storage provider that fail.
MaxFaults == 1

\* Highest per-actor sequence number of a CRDT change.
MaxSeq == 1

\* ------------------------------------------------------------------ keys

\* Private keys of the three users of the model (A, B, C).
PrivateKeys == {1, 2, 3}

\* crypto.getPublicKey: the public key derived from a private key.
getPublicKey(sk) == 10 + sk

PublicKeys == {getPublicKey(sk) : sk \in PrivateKeys}

\* crypto.createSignature: a signature names the key that made it and the
\* content it was made over.
createSignature(content, sk) == [signer |-> sk, over |-> content]

\* crypto.verifySignature: valid when made over this content by the private
\* key of this public key.
verifySignature(content, signature, pk) ==
    /\ getPublicKey(signature.signer) = pk
    /\ signature.over = content

\* ------------------------------------------------------------------ header

\* An Address is an owner public key and a nonce; its base58 hash is the id.
Addresses == [owner : {getPublicKey(1), getPublicKey(2)}, nonce : {1}]

Metadatas == {"x", "y"}

\* The body of a header that the owner signs.
HeaderBody(h) == <<h.address, h.version, h.allowedUsers, h.metadata>>

\* A header object: the owner is always one of the allowed users.
MkHeader(address, owner, version, users, metadata, sk) ==
    LET body == <<address, version, users \cup {owner}, metadata>>
    IN  [address |-> address, owner |-> owner, version |-> version,
         allowedUsers |-> users \cup {owner}, metadata |-> metadata,
         signature |-> createSignature(body, sk)]

\* DocumentHeader.create: a version-1 header owned and signed by the key.
HeaderCreate(sk, users, metadata, nonce) ==
    MkHeader([owner |-> getPublicKey(sk), nonce |-> nonce], getPublicKey(sk),
             1, users, metadata, sk)

\* DocumentHeader.hasAllowedUser
hasAllowedUser(h, pk) == pk \in h.allowedUsers

\* Whether the header's own signature verifies under key pk.
HeaderSignedBy(h, pk) == verifySignature(HeaderBody(h), h.signature, pk)

\* DocumentHeader.verifySignature: a content signature under the owner.
HeaderVerifySignature(h, content, signature) ==
    verifySignature(content, signature, h.owner)

\* DocumentHeader.upgrade succeeds (does not throw): same address, strictly
\* greater version, and the new header is signed by the old header's owner.
UpgradeAccepts(old, new) ==
    /\ new.address = old.address
    /\ new.version > old.version
    /\ HeaderSignedBy(new, old.owner)

Range(s) == {s[i] : i \in DOMAIN s}

\* The elements of a set of keys in increasing order.
SortedSeq(S) ==
    CHOOSE s \in [1..Cardinality(S) -> S] :
        \A i, j \in 1..Cardinality(S) : i < j => s[i] < s[j]

\* DocumentHeader.export: the canonical encoding, an array of the address, the
\* owner, the version, the sorted allowed users, the metadata and the signature.
HeaderExport(h) ==
    <<h.address, h.owner, h.version, SortedSeq(h.allowedUsers), h.metadata,
      h.signature>>

\* DocumentHeader.import: decodes the array and verifies the signature under
\* the declared owner; fails with InvalidHeader otherwise.
HeaderImport(raw) ==
    LET h == [address |-> raw[1], owner |-> raw[2], version |-> raw[3],
              allowedUsers |-> Range(raw[4]), metadata |-> raw[5],
              signature |-> raw[6]]
    IN  IF HeaderSignedBy(h, h.owner)
        THEN [ok |-> TRUE, header |-> h]
        ELSE [ok |-> FALSE, error |-> "InvalidHeader"]

\* A header whose version was changed after signing (the signature is stale).
Tamper(h) == [h EXCEPT !.version = IF h.version = 1 THEN 2 ELSE h.version - 1]

\* The keys that own and sign the headers of the model; the third user is
\* never an owner.
OwnerKeys == {1, 2}

\* The allowed-user lists a header is made with (the owner is added to each).
UserLists == SUBSET {getPublicKey(2), getPublicKey(3)}

\* Headers of Document objects that exist: signed by their declared owner.
SignedHeaders ==
    {MkHeader(a, getPublicKey(sk), v, u, "x", sk) :
        a \in Addresses, sk \in OwnerKeys, v \in 1..MaxVersion,
        u \in UserLists}

\* Every header that can be offered to updateHeader: any declared owner, any
\* signer, and stale signatures.
OfferedHeaders ==
    LET signed == {MkHeader(a, getPublicKey(o), v, u, m, sk) :
                      a \in Addresses, o \in OwnerKeys, sk \in OwnerKeys,
                      v \in 1..MaxVersion, u \in UserLists, m \in Metadatas}
    IN  signed \cup {Tamper(h) : h \in signed}

\* ------------------------------------------------------------------ CRDT

\* The actors that author changes.
Actors == {"a", "b"}

\* An Automerge document is the set of changes it holds; a change is
\* <<actor, seq>> and depends on the actor's earlier changes.
Changes == Actors \X (1..MaxSeq)

IsCrdt(d) == \A c \in d : \A n \in 1..c[2] : <<c[1], n>> \in d

Crdts == {d \in SUBSET Changes : IsCrdt(d)}

\* A.init
AInit == {}

\* A.getHeads: the changes no other change of the document depends on.
getHeads(d) == {c \in d : <<c[1], c[2] + 1>> \notin d}

\* A.merge / A.loadIncremental: the union of the two histories.
AMerge(d, e) == d \cup e

\* A.save / A.clone: the binary holds the whole history.
ASave(d) == d

SeqOf(d, actor) == Cardinality({c \in d : c[1] = actor})

\* A.change by an actor: appends the actor's next change.
AChange(d, actor) == d \cup {<<actor, SeqOf(d, actor) + 1>>}

\* ------------------------------------------------------------------ Document

NoArg == "none"

Event(name, payload) == [name |-> name, payload |-> payload]

\* new Document(header): an empty Automerge document under the header.
NewDocument(header) == [header |-> header, data |-> AInit, destroyed |-> FALSE]

\* Document.create
DocCreate(sk, users, metadata, nonce) ==
    NewDocument(HeaderCreate(sk, users, metadata, nonce))

\* Document.hasChanged: compares the heads of the current and the new data.
hasChanged(old, new) ==
    LET aHeads == getHeads(old)
        bHeads == getHeads(new)
    IN  ~(/\ Cardinality(aHeads) = Cardinality(bHeads)
          /\ \A head \in aHeads : head \in bHeads)

\* The patch callback registered at A.init: emits patch when a library call
\* produced patches.
PatchEvents(before, after) ==
    IF after # before
    THEN <<Event("patch", [before |-> before, after |-> after])>>
    ELSE <<>>

\* Document.update that replaces the data without emitting change.
DocUpdateSilent(d, newData) ==
    [doc    |-> [d EXCEPT !.data = newData],
     ret    |-> newData,
     events |-> <<>>]

\* Document.update that emits change with the data it is about to replace.
DocUpdateStale(d, newData) ==
    [doc    |-> [d EXCEPT !.data = newData],
     ret    |-> newData,
     events |-> IF hasChanged(d.data, newData)
                THEN <<Event("change", d.data)>>
                ELSE <<>>]

\* Document.update: emits change when the heads differ, then replaces the data.
DocUpdate(d, newData) ==
    [doc    |-> [d EXCEPT !.data = newData],
     ret    |-> newData,
     events |-> IF hasChanged(d.data, newData)
                THEN <<Event("change", newData)>>
                ELSE <<>>]

\* Document.change: update through A.change.
DocChange(d, actor) ==
    LET new == AChange(d.data, actor)
        r   == DocUpdate(d, new)
    IN  [r EXCEPT !.events = PatchEvents(d.data, new) \o r.events]

\* Document.load: A.loadIncremental of a binary; emits no change event.
DocLoad(d, binary) ==
    [doc    |-> [d EXCEPT !.data = AMerge(d.data, binary)],
     ret    |-> TRUE,
     events |-> PatchEvents(d.data, AMerge(d.data, binary))]

\* Document.export without the allowed-user check.
DocExportUnchecked(d, sk) ==
    [doc |-> d,
     ret |-> [ok |-> TRUE,
              header |-> HeaderExport(d.header),
              content |-> ASave(d.data),
              signature |-> createSignature(ASave(d.data), sk)],
     events |-> <<>>]

\* Document.export that signs the content of an empty document instead of
\* the document's content.
DocExportSignedEmpty(d, sk) ==
    IF ~hasAllowedUser(d.header, getPublicKey(sk))
    THEN [doc |-> d, ret |-> [ok |-> FALSE, error |-> "Unauthorized"],
          events |-> <<>>]
    ELSE [doc |-> d,
          ret |-> [ok |-> TRUE,
                   header |-> HeaderExport(d.header),
                   content |-> ASave(d.data),
                   signature |-> createSignature(ASave(AInit), sk)],
          events |-> <<>>]

\* Document.export that looks the private key itself up among the allowed
\* users instead of its public key.
DocExportByPrivateKey(d, sk) ==
    IF ~hasAllowedUser(d.header, sk)
    THEN [doc |-> d, ret |-> [ok |-> FALSE, error |-> "Unauthorized"],
          events |-> <<>>]
    ELSE [doc |-> d,
          ret |-> [ok |-> TRUE,
                   header |-> HeaderExport(d.header),
                   content |-> ASave(d.data),
                   signature |-> createSignature(ASave(d.data), sk)],
          events |-> <<>>]

\* Document.export: throws UnauthorizedAccessError unless the key's public key
\* is an allowed user; otherwise the signed export.
DocExport(d, sk) ==
    IF ~hasAllowedUser(d.header, getPublicKey(sk))
    THEN [doc |-> d, ret |-> [ok |-> FALSE, error |-> "Unauthorized"],
          events |-> <<>>]
    ELSE [doc |-> d,
          ret |-> [ok |-> TRUE,
                   header |-> HeaderExport(d.header),
                   content |-> ASave(d.data),
                   signature |-> createSignature(ASave(d.data), sk)],
          events |-> <<>>]

\* Document.updateHeader that accepts a header of the same version.
DocUpdateHeaderSameVersion(d, header) ==
    IF /\ header.address = d.header.address
       /\ header.version >= d.header.version
       /\ HeaderSignedBy(header, d.header.owner)
    THEN [doc    |-> [d EXCEPT !.header = header],
          ret    |-> TRUE,
          events |-> <<Event("header-updated", header)>>]
    ELSE [doc |-> d, ret |-> FALSE, events |-> <<>>]

\* Document.updateHeader that emits header-updated before the upgrade check.
DocUpdateHeaderEmitFirst(d, header) ==
    IF UpgradeAccepts(d.header, header)
    THEN [doc    |-> [d EXCEPT !.header = header],
          ret    |-> TRUE,
          events |-> <<Event("header-updated", header)>>]
    ELSE [doc |-> d, ret |-> FALSE,
          events |-> <<Event("header-updated", header)>>]

\* Document.updateHeader: installs the upgraded header and emits
\* header-updated; returns false when DocumentHeader.upgrade throws.
DocUpdateHeader(d, header) ==
    IF UpgradeAccepts(d.header, header)
    THEN [doc    |-> [d EXCEPT !.header = header],
          ret    |-> TRUE,
          events |-> <<Event("header-updated", header)>>]
    ELSE [doc |-> d, ret |-> FALSE, events |-> <<>>]

\* Document.mergeDocument that takes the other header without upgrading.
DocMergeDocumentTakeHeader(d, other) ==
    LET new == AMerge(d.data, other.data)
        u   == DocUpdate([d EXCEPT !.header = other.header], new)
    IN  [doc |-> u.doc, ret |-> TRUE,
         events |-> PatchEvents(d.data, new) \o u.events]

\* Document.mergeDocument: merges the other document's data only when
\* updateHeader accepted the other document's header.
DocMergeDocument(d, other) ==
    LET h == DocUpdateHeader(d, other.header)
    IN  IF h.ret
        THEN LET new == AMerge(h.doc.data, other.data)
                 u   == DocUpdate(h.doc, new)
             IN  [doc    |-> u.doc,
                  ret    |-> TRUE,
                  events |-> h.events \o PatchEvents(h.doc.data, new)
                                     \o u.events]
        ELSE [doc |-> d, ret |-> FALSE, events |-> <<>>]

\* Document.fromRawHeader that leaves the content out.
DocFromRawHeaderEmpty(rawHeader, content) ==
    LET h == HeaderImport(rawHeader)
    IN  IF h.ok
        THEN [ok |-> TRUE, doc |-> NewDocument(h.header)]
        ELSE [ok |-> FALSE, error |-> h.error]

\* Document.fromRawHeader: a document under the imported header, loaded with
\* the content; fails when the header does not import.
DocFromRawHeader(rawHeader, content) ==
    LET h == HeaderImport(rawHeader)
    IN  IF h.ok
        THEN [ok |-> TRUE, doc |-> DocLoad(NewDocument(h.header), content).doc]
        ELSE [ok |-> FALSE, error |-> h.error]

\* The binary form of an export: the encoded header, content and signature.
Encode(e) ==
    [header |-> e.header, content |-> e.content, signature |-> e.signature]

\* Document.import that builds the document without verifying the content
\* signature.
DocImportUnverified(rawDocument) ==
    LET h == HeaderImport(rawDocument.header)
    IN  IF ~h.ok
        THEN [ok |-> FALSE, error |-> h.error]
        ELSE DocFromRawHeader(rawDocument.header, rawDocument.content)

\* Document.import: decodes, imports the header, verifies the content
\* signature with the header and builds the document.
DocImport(rawDocument) ==
    LET h == HeaderImport(rawDocument.header)
    IN  IF ~h.ok
        THEN [ok |-> FALSE, error |-> h.error]
        ELSE IF ~HeaderVerifySignature(h.header, rawDocument.content,
                                       rawDocument.signature)
        THEN [ok |-> FALSE, error |-> "DocumentValidationError"]
        ELSE DocFromRawHeader(rawDocument.header, rawDocument.content)

\* Document.destroy: sets the flag and emits destroyed.
DocDestroy(d) ==
    [doc    |-> [d EXCEPT !.destroyed = TRUE],
     ret    |-> TRUE,
     events |-> <<Event("destroyed", NoArg)>>]

\* Document.id: the base58 form of the header's address.
DocumentId(d) == <<d.header.address.owner, d.header.address.nonce>>

\* ------------------------------------------------------------------ registry

\* DocumentRegistry.setDocument: merges into the stored document when the id
\* exists (document-updated), stores the document otherwise (document-added).
\* The registry is a map from the ids it holds to their documents.
RegistrySetDocument(docs, d) ==
    LET id == DocumentId(d)
    IN  IF id \in DOMAIN docs
        THEN LET m == DocMergeDocument(docs[id], d)
             IN  [documents |-> [docs EXCEPT ![id] = m.doc],
                  ret       |-> m.doc,
                  docEvents |-> m.events,
                  events    |-> <<Event("document-updated", id)>>]
        ELSE [documents |-> [i \in DOMAIN docs \cup {id} |->
                                IF i = id THEN d ELSE docs[i]],
              ret       |-> d,
              docEvents |-> <<>>,
              events    |-> <<Event("document-added", id)>>]

\* Other Document objects that can be passed to mergeDocument.
OtherDocuments == [header : SignedHeaders, data : Crdts, destroyed : {FALSE}]

\* No call is in progress: the caller has taken the last result.
Idle == [op |-> "idle", arg |-> NoArg, pre |-> NoArg, ret |-> NoArg,
         events |-> <<>>, handler |-> "none", promise |-> "none"]

\* What the listener registered on the document's events does when it is
\* called: there is none, it throws, or it returns a promise that rejects.
Handlers == {"none", "throws", "rejects"}

\* The promise emit returns: it rejects when a listener that was called throws
\* or rejects.
EmitPromise(handler, events) ==
    IF handler = "none" \/ events = <<>> THEN "fulfilled" ELSE "rejected"

\* A method whose emit lets the listener's failure through: the call fails
\* before the new state is installed.
EmitThrough(handler, d, r) ==
    IF EmitPromise(handler, r.events) = "rejected"
    THEN [doc |-> d, ret |-> "error", events |-> r.events,
          promise |-> "rejected"]
    ELSE [doc |-> r.doc, ret |-> r.ret, events |-> r.events,
          promise |-> "fulfilled"]

\* void this.emit(...): the listeners run after the method and the promise of
\* emit is discarded, so the method ends with the state and the result of r
\* (handler, d: the listener and the state before the call); the promise is
\* kept here only to tell how it settled.
EmitVoid(handler, d, r) ==
    [doc |-> r.doc, ret |-> r.ret, events |-> r.events,
     promise |-> EmitPromise(handler, r.events)]

\* A method runs to completion on the document; its result is held in lastOp
\* until the caller takes it.
Called(op, arg, r) ==
    /\ lastOp.op = "idle"
    /\ doc' = r.doc
    /\ lastOp' = [op |-> op, arg |-> arg, pre |-> doc, ret |-> r.ret,
                  events |-> r.events, handler |-> "none",
                  promise |-> "none"]
    /\ UNCHANGED <<exVars, clientVars, syncVars, restVars>>

\* A method runs to completion while a listener is registered on the
\* document's events; the events of the call are emitted with void emit.
Listened(op, arg, handler, r) ==
    /\ lastOp.op = "idle"
    /\ \E e \in {EmitVoid(handler, doc, r)} :
           /\ doc' = e.doc
           /\ lastOp' = [op |-> op, arg |-> arg, pre |-> doc, ret |-> e.ret,
                         events |-> e.events, handler |-> handler,
                         promise |-> e.promise]
    /\ UNCHANGED <<exVars, clientVars, syncVars, restVars>>

\* The caller takes the result of the last call.
Return ==
    /\ lastOp.op # "idle"
    /\ lastOp' = Idle
    /\ UNCHANGED <<doc, exVars, clientVars, syncVars, restVars>>


Change ==
    \E actor \in Actors :
        /\ SeqOf(doc.data, actor) < MaxSeq
        /\ Called("change", actor, DocChange(doc, actor))

Load ==
    \E binary \in Crdts : Called("load", binary, DocLoad(doc, binary))

Export ==
    \E sk \in PrivateKeys : Called("export", sk, DocExport(doc, sk))

UpdateHeader ==
    \E header \in OfferedHeaders :
        Called("updateHeader", header, DocUpdateHeader(doc, header))

MergeDocument ==
    \E other \in OtherDocuments :
        Called("mergeDocument", other, DocMergeDocument(doc, other))

\* setDocument on a registry that holds the document under test.
SetDocument ==
    \E other \in OtherDocuments :
        LET id == DocumentId(doc)
            r  == RegistrySetDocument([i \in {id} |-> doc], other)
        IN  Called("setDocument", other,
                   [doc |-> r.documents[id], ret |-> r.events,
                    events |-> r.docEvents])

\* destroy() on the document under test.
Destroy == Called("destroy", NoArg, DocDestroy(doc))

\* change() while a failing listener is registered on change and patch.
ChangeListened ==
    \E actor \in Actors, handler \in Handlers \ {"none"} :
        /\ SeqOf(doc.data, actor) < MaxSeq
        /\ Listened("change", actor, handler, DocChange(doc, actor))

\* updateHeader() while a failing listener is registered on header-updated.
UpdateHeaderListened ==
    \E header \in OfferedHeaders, handler \in Handlers \ {"none"} :
        Listened("updateHeader", header, handler,
                 DocUpdateHeader(doc, header))

NextDocument ==
    \/ Destroy
    \/ ChangeListened
    \/ UpdateHeaderListened
    \/ Change
    \/ Load
    \/ Export
    \/ UpdateHeader
    \/ MergeDocument
    \/ SetDocument
    \/ Return


\* DocumentRegistry.removeDocument: the document is destroyed, taken out of
\* the registry and announced by document-destroyed.
RegistryRemoveDocument(docs, id) ==
    IF id \in DOMAIN docs
    THEN [documents |-> [i \in DOMAIN docs \ {id} |-> docs[i]],
          destroyed |-> <<DocDestroy(docs[id]).doc>>,
          events    |-> <<Event("document-destroyed", id)>>]
    ELSE [documents |-> docs, destroyed |-> <<>>, events |-> <<>>]

\* ------------------------------------------------------------------ exchanger

\* Decoded values of a message payload, tagged with their JavaScript type.
Str(v) == <<"string", v>>
Num(v) == <<"number", v>>
Bytes(v) == <<"Uint8Array", v>>
Obj(fields) == <<"object", fields>>
Undefined == <<"undefined">>

\* An object with the given fields, the undefined ones left out.
MkObject(f) == Obj([k \in {k \in DOMAIN f : f[k] # Undefined} |-> f[k]])

\* RequestDocumentMessageSchema
RequestDocumentMessageSchema ==
    [type |-> <<"literal", "request-document">>, documentId |-> <<"string">>]

\* ResponseDocumentMessageSchema
ResponseDocumentMessageSchema ==
    [type |-> <<"literal", "document-response">>, document |-> <<"Uint8Array">>]

\* SignalMessageSchema: a document id and an sdp, an ice candidate or a bye.
SignalMessageSchema ==
    [type |-> <<"literal", "signal">>, documentId |-> <<"string">>,
     signal |-> <<"signal">>]

\* The schemas the sharing client builds its exchanger with.
Schemas ==
    {RequestDocumentMessageSchema, ResponseDocumentMessageSchema,
     SignalMessageSchema}

\* Whether a value passes one field's schema.
FieldAccepts(kind, value) ==
    CASE kind[1] = "literal" -> value = Str(kind[2])
      [] kind[1] = "signal"  -> value[1] \in {"sdp", "ice", "bye"}
      [] OTHER               -> value[1] = kind[1]

\* z.object(...).safeParse: every field of the schema is present and passes;
\* the parsed data keeps the schema's fields only.
ObjectParse(schema, fields) ==
    IF \A k \in DOMAIN schema :
          k \in DOMAIN fields /\ FieldAccepts(schema[k], fields[k])
    THEN [success |-> TRUE, data |-> Obj([k \in DOMAIN schema |-> fields[k]])]
    ELSE [success |-> FALSE, data |-> Undefined]

\* z.discriminatedUnion('type', schemas).safeParseAsync: the data must be an
\* object whose type selects one of the schemas, and must pass that schema.
safeParse(schemas, data) ==
    IF data[1] # "object" \/ "type" \notin DOMAIN data[2]
    THEN [success |-> FALSE, data |-> Undefined]
    ELSE LET options == {sc \in schemas :
                            FieldAccepts(sc.type, data[2].type)}
         IN  IF options = {}
             THEN [success |-> FALSE, data |-> Undefined]
             ELSE ObjectParse(CHOOSE sc \in options : TRUE, data[2])

\* An event of the exchanger: its name and the message it carries.
ExEvent(name, message) == [name |-> name, message |-> message]

\* MessageExchanger.handle that dispatches on the raw type without validating.
handleUnvalidated(schemas, message) ==
    IF message.data[1] = "object" /\ "type" \in DOMAIN message.data[2]
    THEN [events |-> <<ExEvent(message.data[2].type[2], message)>>,
          threw  |-> FALSE]
    ELSE [events |-> <<>>, threw |-> FALSE]

\* MessageExchanger.handle that parses with parseAsync, which throws.
handleThrowing(schemas, message) ==
    LET safeParsed == safeParse(schemas, message.data)
    IN  IF safeParsed.success
        THEN [events |-> <<ExEvent(safeParsed.data[2].type[2],
                                   [message EXCEPT !.data = safeParsed.data])>>,
              threw  |-> FALSE]
        ELSE [events |-> <<>>, threw |-> TRUE]

\* MessageExchanger.handle: emits the parsed message under its type when the
\* data passes the union, logs the error otherwise; it never throws.
handle(schemas, message) ==
    LET safeParsed == safeParse(schemas, message.data)
    IN  IF safeParsed.success
        THEN [events |-> <<ExEvent(safeParsed.data[2].type[2],
                                   [message EXCEPT !.data = safeParsed.data])>>,
              threw  |-> FALSE]
        ELSE [events |-> <<>>, threw |-> FALSE]

\* MessageExchanger.sendMessage that hands the data to the signaling client
\* as given, before it is parsed.
ExSendMessageUnparsed(handler, schemas, data, to) ==
    IF handler = "none"
    THEN [result |-> "Error", calls |-> <<>>]
    ELSE [result |-> IF safeParse(schemas, data).success
                     THEN "resolved" ELSE "ZodError",
          calls  |-> <<[client |-> handler,
                        message |-> [to |-> to, data |-> data]]>>]

\* MessageExchanger.sendMessage: throws without a signaling client; parseAsync
\* throws on data that does not pass the union; otherwise the client's
\* sendMessage is called with the recipient and the parsed data.
ExSendMessage(handler, schemas, data, to) ==
    IF handler = "none"
    THEN [result |-> "Error", calls |-> <<>>]
    ELSE LET parsed == safeParse(schemas, data)
         IN  IF parsed.success
             THEN [result |-> "resolved",
                   calls  |-> <<[client |-> handler,
                                 message |-> [to |-> to,
                                              data |-> parsed.data]]>>]
             ELSE [result |-> "ZodError", calls |-> <<>>]

SignalingClients == {"c1", "c2"}

\* The senders of inbound messages.
Senders ==
    {[publicKey |-> getPublicKey(2), clientId |-> 1],
     [publicKey |-> getPublicKey(3), clientId |-> 2]}

\* The payloads a signaling client can deliver: objects with any mix of
\* present, absent and wrongly typed fields, and values that are no objects.
Payloads ==
    {MkObject([type |-> t, documentId |-> id, document |-> d, signal |-> sg,
               extra |-> x]) :
        t \in {Undefined, Num(42), Str("request-document"),
               Str("document-response"), Str("signal"), Str("other")},
        id \in {Undefined, Str("d1"), Num(42)},
        d \in {Undefined, Bytes(1), Str("d1")},
        sg \in {Undefined, <<"bye">>, <<"sdp", "offer">>, Str("bye")},
        x \in {Undefined, Str("more")}}
    \cup {Num(42), Str("request-document")}

InboundMessages == [from : Senders, data : Payloads]

NoMessage == [from |-> "none", data |-> Undefined]

\* No inbound message is being handled.
ExIdle == [client |-> "none", message |-> NoMessage, runs |-> <<>>]

NoListeners == [c \in SignalingClients |-> 0]

\* The recipients of an outbound message: none for a broadcast.
Recipients == {<<>>} \cup {<<s>> : s \in Senders}

\* No sendMessage is in progress.
NoSend ==
    [op |-> "idle", data |-> Undefined, to |-> <<>>, client |-> "none",
     result |-> "none", calls |-> <<>>]

\* MessageExchanger.setClient that subscribes on every call and never
\* unsubscribes.
SetClientAlways ==
    \E client \in SignalingClients :
        /\ listeners[client] < 2
        /\ clientHandler' = client
        /\ listeners' = [listeners EXCEPT ![client] = @ + 1]
        /\ setLog' = IF clientHandler # client
                     THEN [before |-> clientHandler, again |-> FALSE]
                     ELSE [setLog EXCEPT !.again = TRUE]
        /\ exLast.client = "none"
        /\ lastSend.op = "idle"
        /\ UNCHANGED <<exLast, exDropped, lastSend, docVars, syncVars,
                       response, connected, pipeVars, syncMap, destroyedDocs,
                       deletion, ws, connecting, waits, clientVars>>

\* MessageExchanger.setClient: subscribes to the client unless it is the
\* current one, after unsubscribing from the previous client.
SetClient ==
    \E client \in SignalingClients :
        /\ IF clientHandler # client
           THEN /\ clientHandler' = client
                /\ listeners' =
                       [c \in SignalingClients |->
                           IF c = client THEN listeners[c] + 1
                           ELSE IF c = clientHandler THEN listeners[c] - 1
                           ELSE listeners[c]]
                /\ setLog' = [before |-> clientHandler, again |-> FALSE]
           ELSE /\ setLog' = [setLog EXCEPT !.again = TRUE]
                /\ UNCHANGED <<clientHandler, listeners>>
        /\ exLast.client = "none"
        /\ lastSend.op = "idle"
        /\ UNCHANGED <<exLast, exDropped, lastSend, docVars, syncVars,
                       response, connected, pipeVars, syncMap, destroyedDocs,
                       deletion, ws, connecting, waits, clientVars>>

\* A signaling client emits message: every listener of the exchanger on that
\* client runs handle on it.
ClientMessage ==
    \E client \in SignalingClients, message \in InboundMessages :
        LET run == handle(Schemas, message)
        IN  /\ exLast.client = "none"
            /\ lastSend.op = "idle"
            /\ exLast' = [client |-> client, message |-> message,
                          runs |-> [i \in 1..listeners[client] |-> run]]
            /\ exDropped' =
                   IF listeners[client] > 0 /\ run.events = <<>> /\ exDropped < 2
                   THEN exDropped + 1
                   ELSE exDropped
            /\ UNCHANGED <<clientHandler, listeners, lastSend, docVars, syncVars, restVars,
                           clientVars>>

\* The listener runs of the last inbound message have all returned.
Handled ==
    /\ exLast.client # "none"
    /\ exLast' = ExIdle
    /\ UNCHANGED <<clientHandler, listeners, exDropped, lastSend, docVars, syncVars, restVars,
                   clientVars>>

\* sendMessage is called on the exchanger with any payload and recipient.
SendMessage ==
    \E data \in Payloads, to \in Recipients :
        LET r == ExSendMessage(clientHandler, Schemas, data, to)
        IN  /\ exLast.client = "none"
            /\ lastSend.op = "idle"
            /\ lastSend' = [op |-> "sendMessage", data |-> data, to |-> to,
                            client |-> clientHandler, result |-> r.result,
                            calls |-> r.calls]
            /\ UNCHANGED <<clientHandler, listeners, exLast, exDropped,
                           docVars, syncVars, restVars, clientVars>>

\* The caller of sendMessage has seen how it settled.
SendSettled ==
    /\ lastSend.op # "idle"
    /\ lastSend' = NoSend
    /\ UNCHANGED <<clientHandler, listeners, exLast, exDropped, docVars, syncVars, restVars,
                   clientVars>>

NextExchanger ==
    \/ SetClient
    \/ ClientMessage
    \/ Handled
    \/ SendMessage
    \/ SendSettled

\* ------------------------------------------------------------------ client

\* The private key of the session the sharing client runs under (user A).
SessionPrivateKey == 1

\* DocumentSharingClient.publicKey
publicKey == getPublicKey(SessionPrivateKey)

\* Headers of the document the client shares: made and owned by user A, with
\* user B allowed or not; user C is never allowed.
ClientHeaders ==
    {h \in SignedHeaders :
        /\ h.address = [owner |-> publicKey, nonce |-> 1]
        /\ h.owner = publicKey
        /\ getPublicKey(3) \notin h.allowedUsers}

\* The ids a message can name: the id of the document the client shares.
DocumentIds == {DocumentId(NewDocument(h)) : h \in ClientHeaders}

\* The CRDT states of the document the client shares: empty, or holding the
\* first change of one actor.
ClientCrdts == {AInit, AChange(AInit, "a")}

\* What the storage holds for an id: the exported header under hdr/id and
\* the saved binary under bin/id (<<>> while no binary has been written).
StorageRecord(header, binary) ==
    [header |-> HeaderExport(header), binary |-> <<ASave(binary)>>]

\* Storage.loadBinary that returns nothing when no binary is stored.
StorageLoadBinaryMissing(st, id) == st[id].binary

\* Storage.loadBinary: the stored binary, or an empty binary when none is
\* stored; the result is a sequence of at most one binary.
StorageLoadBinary(st, id) ==
    IF st[id].binary = <<>> THEN <<ASave(AInit)>> ELSE st[id].binary

\* Storage.setDocument: hdr/id = header.export(), then bin/id = A.save(data);
\* the two writes are taken as one step.
StorageSetDocument(st, d) ==
    [i \in DOMAIN st \cup {DocumentId(d)} |->
        IF i = DocumentId(d) THEN StorageRecord(d.header, d.data) ELSE st[i]]

\* The exports that arrive in document-response messages: any client header
\* or a tampered one, any content, signed by either owner key.
ResponseDocuments ==
    {[header |-> HeaderExport(h), content |-> ASave(c),
      signature |-> createSignature(ASave(c), sk)] :
        h \in ClientHeaders
                 \cup {Tamper(g) : g \in {f \in ClientHeaders : f.version = 1}},
        c \in ClientCrdts, sk \in OwnerKeys}

\* The payloads the signaling client delivers to the sharing client.
ClientPayloads ==
    {MkObject([type |-> Str("request-document"), documentId |-> Str(id)]) :
        id \in DocumentIds}
    \cup {MkObject([type |-> Str("document-response"), document |-> Bytes(x)]) :
             x \in ResponseDocuments}
    \cup {MkObject([type |-> Str("signal"), documentId |-> Str(id),
                    signal |-> sg]) :
             id \in DocumentIds, sg \in {<<"sdp", "offer">>, <<"bye">>}}
    \cup {MkObject([type |-> Str("request-document"), documentId |-> Num(42)]),
          MkObject([type |-> Str("document-response"), document |-> Str("d1")])}

ClientMessages == [from : Senders, data : ClientPayloads]

\* No handler of the sender is in flight. A handler in flight keeps the id it
\* looks up, the header it read, whether findDocument returned a document,
\* and whether that document is the one the registry holds (same).
NoTask ==
    [kind |-> "none", pc |-> "none", id |-> <<>>, rawHeader |-> <<>>,
     found |-> FALSE, same |-> FALSE, allowed |-> FALSE]

NoTasks == [s \in Senders |-> NoTask]

\* The application calling requestDocument on the client.
Caller == [publicKey |-> publicKey, clientId |-> 0]

\* No requestDocument call is in progress.
NoRequest == [status |-> "none", id |-> <<>>, race |-> "none", error |-> "none",
              listener |-> FALSE]

NoDocuments == <<>>

NoAddedTasks == [id \in DocumentIds |-> "none"]

NoneAdded == [id \in DocumentIds |-> 0]

\* The events the exchanger emits for the messages the signaling client
\* delivers: handle drops the messages that do not pass the schemas.
ExchangerEvents ==
    UNION {Range(handle(Schemas, message).events) : message \in ClientMessages}

\* The messages the subscribers of each event of the exchanger receive.
RequestDocumentMessages ==
    {e.message : e \in {x \in ExchangerEvents : x.name = "request-document"}}

DocumentResponseMessages ==
    {e.message : e \in {x \in ExchangerEvents : x.name = "document-response"}}

\* The documents of the document-response messages; their handler reads
\* nothing else of the message.
DocumentResponses ==
    {message.data[2].document[2] : message \in DocumentResponseMessages}

SignalMessages ==
    {e.message : e \in {x \in ExchangerEvents : x.name = "signal"}}

\* The messages a sendMessage on the client's exchanger hands to its
\* signaling client.
sendMessage(schemas, data, to) ==
    {c.message :
        c \in Range(ExSendMessage(clientHandler, schemas, data, to).calls)}

\* The document-response handler of a client that takes a document only
\* while a requestDocument for its id is pending.
OnDocumentResponseRequested(req, docs, d) ==
    IF req.status = "pending" /\ req.id = DocumentId(d)
    THEN RegistrySetDocument(docs, d)
    ELSE [documents |-> docs, ret |-> d, docEvents |-> <<>>, events |-> <<>>]

\* The document-response handler: this.setDocument(Document.import(...)),
\* whatever the state of the requestDocument call.
OnDocumentResponse(req, docs, d) == RegistrySetDocument(docs, d)

\* findDocument, last step, handing the loaded document to the registry
\* without setDocument: stores it and emits document-added.
FindDocumentAdoptUnregistered(docs, d) ==
    [documents |-> [i \in DOMAIN docs \cup {DocumentId(d)} |->
                       IF i = DocumentId(d) THEN d ELSE docs[i]],
     ret       |-> d,
     docEvents |-> <<>>,
     events    |-> <<Event("document-added", DocumentId(d))>>]

\* findDocument, last step, returning the document it loaded instead of
\* what setDocument returns.
FindDocumentAdoptLoaded(docs, d) ==
    [RegistrySetDocument(docs, d) EXCEPT !.ret = d]

\* findDocument, last step: this.setDocument(Document.fromRawHeader(...)).
FindDocumentAdopt(docs, d) == RegistrySetDocument(docs, d)

\* The request-document handler answering whenever the document is found.
RequestAllowedAnyone(found, docs, id, from) == found

\* The request-document handler's condition:
\* document?.header.hasAllowedUser(message.from.publicKey).
RequestAllowed(found, docs, id, from) ==
    IF found THEN hasAllowedUser(docs[id].header, from.publicKey) ELSE FALSE

\* verifyIncomingSignal accepting every sender once the document is found.
verifyIncomingSignalAnyone(found, docs, id, from) == found

\* verifyIncomingSignal:
\* document?.header.hasAllowedUser(message.from.publicKey) ?? false.
verifyIncomingSignal(found, docs, id, from) ==
    IF found THEN hasAllowedUser(docs[id].header, from.publicKey) ELSE FALSE

\* A peer of the manager, with what held when the client decided to create
\* it: whether the document was found and had the remote as an allowed user.
Peer(initiator, id, remote, allowed) ==
    [documentId |-> id, remote |-> remote, initiator |-> initiator,
     allowed |-> allowed]

PeersOf(ps, id, remote) ==
    {p \in ps : p.documentId = id /\ p.remote = remote}

SignalMessage(id, signal) ==
    MkObject([type |-> Str("signal"), documentId |-> Str(id), signal |-> signal])

\* PeerManager.createPeer: the peer takes the place of any peer under the same
\* key and peer-created is emitted; an initiator sends its offer.
createPeer(ps, initiator, id, remote, allowed) ==
    [peers   |-> (ps \ PeersOf(ps, id, remote))
                    \cup {Peer(initiator, id, remote, allowed)},
     created |-> {Peer(initiator, id, remote, allowed)},
     sent    |-> IF initiator
                THEN sendMessage({SignalMessageSchema},
                                 SignalMessage(id, <<"sdp", "offer">>), remote)
                ELSE {},
     events  |-> <<Event("peer-created", <<id, remote>>)>>]

\* PeerManager on an offer from a remote it has no peer for, once
\* verifyIncomingSignal has answered: a non-initiator peer and its answer when
\* verified, nothing otherwise.
AcceptSignal(ps, verified, id, remote, allowed) ==
    IF verified
    THEN LET c == createPeer(ps, FALSE, id, remote, allowed)
         IN  [c EXCEPT !.sent =
                  sendMessage({SignalMessageSchema},
                              SignalMessage(id, <<"sdp", "answer">>), remote)]
    ELSE [peers |-> ps, created |-> {}, sent |-> {}, events |-> <<>>]

\* The peer-created listener that hands the peer to every synchronizer.
SynchronizersAddPeerToAll(map, id, created) ==
    [i \in DOMAIN map |-> map[i] \cup created]

\* The peer-created listener: the synchronizer of the peer's document, if
\* there is one, takes the peer.
SynchronizersAddPeer(map, id, created) ==
    IF id \in DOMAIN map THEN [map EXCEPT ![id] = @ \cup created] ELSE map

\* The peer-destroyed listener: the synchronizer of the peer's document, if
\* there is one, drops the peer.
SynchronizersRemovePeer(map, id, destroyed) ==
    IF id \in DOMAIN map THEN [map EXCEPT ![id] = @ \ destroyed] ELSE map

\* this.synchronizers.set(id, new DocumentSynchronizer(...)): a synchronizer
\* that holds no peer yet.
SynchronizersSet(map, id) ==
    [i \in DOMAIN map \cup {id} |-> IF i = id THEN {} ELSE map[i]]

\* The client's part of a registry.setDocument whose outcome is r: the
\* document-added handler starts, or the document-updated handler asks the
\* storage to write the document.
Registered(r, id) ==
    LET name == r.events[1].name
    IN  /\ documents' = r.documents
        /\ docAdded' =
               IF name = "document-added"
               THEN [docAdded EXCEPT ![id] = IF @ < 2 THEN @ + 1 ELSE @]
               ELSE docAdded
        /\ addedTask' =
               IF name = "document-added"
               THEN [addedTask EXCEPT ![id] = "write"]
               ELSE addedTask
        /\ pendingWrites' =
               IF name = "document-updated"
               THEN pendingWrites \cup {id}
               ELSE pendingWrites
        /\ clientEvents' = r.events

\* Whether the handler found the document and the document now has the
\* sender as an allowed user.
Allowed(found, id, s) ==
    /\ found
    /\ id \in DOMAIN documents
    /\ s.publicKey \in documents[id].header.allowedUsers

\* The handler of the sender moves on.
Step(s, t) == tasks' = [tasks EXCEPT ![s] = t]

\* A request-document message arrives: its handler starts with findDocument.
ReceiveRequestDocument ==
    \E message \in RequestDocumentMessages :
        /\ tasks[message.from].kind = "none"
        /\ Step(message.from,
                [NoTask EXCEPT !.kind = "request", !.pc = "find",
                               !.id = message.data[2].documentId[2]])
        /\ sent' = {}
        /\ clientEvents' = <<>>
        /\ UNCHANGED <<documents, addedTask, storage, pendingWrites, peers,
                       docAdded, docVars, syncVars, restVars, exVars, request>>

\* The document-response handler on a document that imports: the imported
\* document is handed to the registry.
HandleDocumentResponse(rawDocument) ==
    LET imported == DocImport(rawDocument)
    IN  /\ imported.ok
        /\ OnDocumentResponse(request, documents, imported.doc).events # <<>>
        /\ Registered(OnDocumentResponse(request, documents, imported.doc),
                      DocumentId(imported.doc))
        /\ sent' = {}
        /\ UNCHANGED <<storage, tasks, peers, docVars, syncVars, exVars,
                       request>>

\* A document-response message arrives: the imported document is handed to
\* the registry; a document that does not import is not.
ReceiveDocumentResponse ==
    \E rawDocument \in DocumentResponses :
        /\ HandleDocumentResponse(rawDocument)
        /\ UNCHANGED restVars

\* No document-response has been handled.
NoResponse == [at |-> "idle", raw |-> NoArg, error |-> "none"]

\* The document-response handler runs on a message, whatever its document:
\* Document.import throws before setDocument is reached when the document
\* does not import, and the handler ends there. response keeps the message
\* and the error until the handler's promise has settled.
ResponseMessage ==
    \E rawDocument \in DocumentResponses :
        \E imported \in {DocImport(rawDocument)} :
            /\ response.at = "idle"
            /\ IF imported.ok
               THEN /\ HandleDocumentResponse(rawDocument)
                    /\ response' = [at |-> "handled", raw |-> rawDocument,
                                    error |-> "none"]
                    /\ UNCHANGED <<connected, pipeVars, moreVars>>
               ELSE /\ response' = [at |-> "handled", raw |-> rawDocument,
                                    error |-> imported.error]
                    /\ sent' = {}
                    /\ clientEvents' = <<>>
                    /\ UNCHANGED <<documents, addedTask, storage,
                                   pendingWrites, tasks, peers, docAdded,
                                   request, docVars, exVars, syncVars,
                                   connected, pipeVars, moreVars>>

\* The promise of the document-response handler has settled.
ResponseSettled ==
    /\ response.at = "handled"
    /\ response' = NoResponse
    /\ sent' = {}
    /\ clientEvents' = <<>>
    /\ UNCHANGED <<documents, addedTask, storage, pendingWrites, tasks, peers,
                   docAdded, request, docVars, exVars, syncVars, connected,
                   pipeVars, moreVars>>

\* A signal arrives: a bye destroys the sender's peer; an offer from a sender
\* without a peer starts the manager's verification.
ReceiveSignal ==
    \E message \in SignalMessages :
        LET id       == message.data[2].documentId[2]
            signal   == message.data[2].signal
            existing == PeersOf(peers, id, message.from)
        IN  /\ IF existing # {}
               THEN /\ signal[1] = "bye"
                    /\ peers' = peers \ existing
                    /\ syncMap' = SynchronizersRemovePeer(syncMap, id,
                                                          existing)
                    /\ clientEvents' =
                           <<Event("peer-destroyed", <<id, message.from>>)>>
                    /\ UNCHANGED tasks
               ELSE /\ signal[1] = "sdp"
                    /\ tasks[message.from].kind = "none"
                    /\ Step(message.from,
                            [NoTask EXCEPT !.kind = "signal", !.pc = "find",
                                           !.id = id])
                    /\ clientEvents' = <<>>
                    /\ UNCHANGED <<peers, syncMap>>
            /\ sent' = {}
            /\ UNCHANGED <<documents, addedTask, storage, pendingWrites,
                           docAdded, docVars, syncVars,
                           response, connected, pipeVars, sideVars,
                           exVars, request>>

\* findDocument: the registry's lookup in memory.
FindDocument ==
    \E s \in DOMAIN tasks :
        /\ tasks[s].pc = "find"
        /\ Step(s, IF tasks[s].id \in DOMAIN documents
                   THEN [tasks[s] EXCEPT !.pc = "result", !.found = TRUE,
                                         !.same = TRUE]
                   ELSE [tasks[s] EXCEPT !.pc = "loadHeader"])
        /\ sent' = {}
        /\ clientEvents' = <<>>
        /\ UNCHANGED <<documents, addedTask, storage, pendingWrites, peers,
                       docAdded, docVars, syncVars, restVars, exVars, request>>

\* findDocument: storage.loadHeader(id); no header, no document.
LoadHeader ==
    \E s \in DOMAIN tasks :
        /\ tasks[s].pc = "loadHeader"
        /\ Step(s, IF tasks[s].id \in DOMAIN storage
                   THEN [tasks[s] EXCEPT
                            !.pc = "loadBinary",
                            !.rawHeader = <<storage[tasks[s].id].header>>]
                   ELSE [tasks[s] EXCEPT !.pc = "result", !.found = FALSE])
        /\ sent' = {}
        /\ clientEvents' = <<>>
        /\ UNCHANGED <<documents, addedTask, storage, pendingWrites, peers,
                       docAdded, docVars, syncVars, restVars, exVars, request>>

\* findDocument: storage.loadBinary(id), then the loaded document is handed
\* to the registry.
LoadBinary ==
    \E s \in DOMAIN tasks :
        /\ tasks[s].pc = "loadBinary"
        /\ \E binary \in {StorageLoadBinary(storage, tasks[s].id)} :
               IF binary = <<>>
               THEN \* Document.load throws 'Failed to load Document'
                    /\ Step(s, [tasks[s] EXCEPT !.pc = "result",
                                                !.found = FALSE])
                    /\ clientEvents' = <<>>
                    /\ UNCHANGED <<documents, docAdded, addedTask,
                                   pendingWrites>>
               ELSE \E loaded \in {DocFromRawHeader(tasks[s].rawHeader[1],
                                                    binary[1])} :
                        /\ loaded.ok
                        /\ \E r \in {FindDocumentAdopt(documents,
                                                       loaded.doc)} :
                               /\ Registered(r, DocumentId(loaded.doc))
                               /\ Step(s, [tasks[s] EXCEPT
                                              !.pc = "result",
                                              !.found = TRUE,
                                              !.same =
                                                  r.ret =
                                                  r.documents[
                                                      DocumentId(loaded.doc)]])
        /\ sent' = {}
        /\ UNCHANGED <<storage, peers, docVars, syncVars, restVars, exVars,
                       request>>

\* The request-document handler that goes on to share-document whether or
\* not its send was delivered.
RequestAfterSendAnyway(t, delivered, allowed) ==
    [t EXCEPT !.pc = "share", !.allowed = allowed]

\* The request-document handler after await this.exchanger.sendMessage(...):
\* it goes on when the send resolved and ends there when the send rejected.
RequestAfterSend(t, delivered, allowed) ==
    IF delivered
    THEN [t EXCEPT !.pc = "share", !.allowed = allowed]
    ELSE NoTask

\* The request-document handler after findDocument: when the sender is
\* allowed, the document is exported with the session's key and sent to the
\* sender; an export that throws or a send that rejects ends the handler.
RequestDecide ==
    \E s \in Senders, delivered \in BOOLEAN :
        LET t == tasks[s]
        IN  /\ t.kind = "request"
            /\ t.pc = "result"
            /\ IF RequestAllowed(t.found, documents, t.id, s)
               THEN LET export == DocExport(documents[t.id],
                                            SessionPrivateKey).ret
                    IN  IF export.ok
                        THEN /\ sent' =
                                    IF delivered
                                    THEN sendMessage(
                                             Schemas,
                                             MkObject(
                                                 [type |->
                                                      Str("document-response"),
                                                  document |->
                                                      Bytes(Encode(export))]),
                                             s)
                                    ELSE {}
                             /\ Step(s, RequestAfterSend(
                                            t, delivered,
                                            Allowed(t.found, t.id, s)))
                        ELSE /\ sent' = {}
                             /\ Step(s, NoTask)
               ELSE /\ sent' = {}
                    /\ Step(s, NoTask)
            /\ clientEvents' = <<>>
            /\ UNCHANGED <<documents, addedTask, storage, pendingWrites, peers,
                           docAdded, docVars, syncVars, restVars, exVars, request>>

\* The request-document handler after the send: emits share-document.
RequestShare ==
    \E s \in Senders :
        /\ tasks[s].pc = "share"
        /\ Step(s, [tasks[s] EXCEPT !.pc = "peer"])
        /\ sent' = {}
        /\ clientEvents' = <<Event("share-document", <<tasks[s].id, s>>)>>
        /\ UNCHANGED <<documents, addedTask, storage, pendingWrites, peers,
                       docAdded, docVars, syncVars, restVars, exVars, request>>

\* The request-document handler's last step: peerManager.createPeer(true, ...).
RequestCreatePeer ==
    \E s \in Senders :
        LET t == tasks[s]
            c == createPeer(peers, TRUE, t.id, s, t.allowed)
        IN  /\ t.pc = "peer"
            /\ peers' = c.peers
            /\ syncMap' = SynchronizersAddPeer(syncMap, t.id, c.created)
            /\ sent' = c.sent
            /\ clientEvents' = c.events
            /\ Step(s, NoTask)
            /\ UNCHANGED <<documents, addedTask, storage, pendingWrites,
                           docAdded, docVars, syncVars,
                           response, connected, pipeVars, sideVars,
                           exVars, request>>

\* The peer manager after verifyIncomingSignal's findDocument: the signal is
\* accepted or dropped.
SignalDecide ==
    \E s \in Senders :
        LET t == tasks[s]
            r == AcceptSignal(
                     peers,
                     verifyIncomingSignal(t.found, documents, t.id, s),
                     t.id, s, Allowed(t.found, t.id, s))
        IN  /\ t.kind = "signal"
            /\ t.pc = "result"
            /\ peers' = r.peers
            /\ syncMap' = SynchronizersAddPeer(syncMap, t.id, r.created)
            /\ sent' = r.sent
            /\ clientEvents' = r.events
            /\ Step(s, NoTask)
            /\ UNCHANGED <<documents, addedTask, storage, pendingWrites,
                           docAdded, docVars, syncVars,
                           response, connected, pipeVars, sideVars,
                           exVars, request>>

\* The requestDocument call after document-<id> is emitted: the listener that
\* once subscribed is called and removed.
OnceFired(req, id) ==
    IF req.listener /\ req.id = id
    THEN [req EXCEPT
             !.listener = FALSE,
             !.race = IF req.status = "pending" /\ req.race = "waiting"
                      THEN "fired"
                      ELSE req.race]
    ELSE req

\* The document-added handler: storage.setDocument is done, the listeners on
\* the document and its synchronizer are in place, and document-<id> is
\* emitted.
AddedHandler ==
    \E id \in DOMAIN documents :
        /\ addedTask[id] = "write"
        /\ storage' = StorageSetDocument(storage, documents[id])
        /\ addedTask' = [addedTask EXCEPT ![id] = "done"]
        /\ syncMap' = SynchronizersSet(syncMap, id)
        /\ sent' = {}
        /\ clientEvents' = <<Event("document-id", id)>>
        /\ request' = OnceFired(request, id)
        /\ UNCHANGED <<documents, pendingWrites, tasks, peers, docAdded,
                       docVars, syncVars,
                       response, connected, pipeVars, sideVars, exVars>>

\* A storage.setDocument or a throttled storage.save asked for by a listener
\* writes the document.
StorageWrite ==
    \E id \in pendingWrites :
        /\ storage' = StorageSetDocument(storage, documents[id])
        /\ pendingWrites' = pendingWrites \ {id}
        /\ sent' = {}
        /\ clientEvents' = <<>>
        /\ UNCHANGED <<documents, addedTask, tasks, peers, docAdded, docVars, syncVars, restVars,
                       exVars, request>>

\* The application changes a live document; once the change listener is in
\* place the throttled save is asked for.
LocalChange ==
    \E id \in DOMAIN documents :
        /\ AChange(documents[id].data, "a") \in ClientCrdts
        /\ documents' =
               [documents EXCEPT ![id] = DocChange(documents[id], "a").doc]
        /\ pendingWrites' =
               IF addedTask[id] = "done"
               THEN pendingWrites \cup {id}
               ELSE pendingWrites
        /\ sent' = {}
        /\ clientEvents' = <<>>
        /\ UNCHANGED <<addedTask, storage, tasks, peers, docAdded,
                       docVars, syncVars, restVars, exVars, request>>

\* The promise of the findDocument of requestDocument, with its then: pending
\* until the lookup ends, fulfilled with the document, or rejected with
\* 'Document not found'.
LookupPromise(t) ==
    IF t.pc # "result" THEN "pending"
    ELSE IF t.found THEN "fulfilled"
    ELSE "rejected"

\* Promise.race of once(document-<id>) and the timer: the first to settle.
RacePromise(race) ==
    IF race = "fired" THEN "fulfilled"
    ELSE IF race = "timedOut" THEN "rejected"
    ELSE "pending"

\* requestDocument settling like Promise.race over its two promises: with
\* the first that settles.
PromiseFirst(lookup, race) ==
    IF lookup = "fulfilled" \/ race = "fulfilled"
    THEN [status |-> "resolved", error |-> "none"]
    ELSE IF lookup = "rejected"
    THEN [status |-> "rejected", error |-> "Document not found"]
    ELSE IF race = "rejected"
    THEN [status |-> "rejected", error |-> "Document request timed out"]
    ELSE [status |-> "pending", error |-> "none"]

\* Promise.any over the lookup and the race: fulfilled by the first that is
\* fulfilled, rejected with an AggregateError once both are rejected.
PromiseAny(lookup, race) ==
    IF lookup = "fulfilled" \/ race = "fulfilled"
    THEN [status |-> "resolved", error |-> "none"]
    ELSE IF lookup = "rejected" /\ race = "rejected"
    THEN [status |-> "rejected", error |-> "AggregateError"]
    ELSE [status |-> "pending", error |-> "none"]

\* requestDocument is called: the request-document broadcast is sent, the
\* lookup starts, and the document-<id> event and the timer are awaited.
\* request.listener tells whether the listener that once(document-<id>)
\* subscribed is still subscribed: the event removes it, nothing else does.
RequestDocument ==
    \E id \in DocumentIds :
        /\ Caller \in DOMAIN tasks
        /\ request.status = "none"
        /\ tasks[Caller].kind = "none"
        /\ request' = [status |-> "pending", id |-> id, race |-> "waiting",
                       error |-> "none", listener |-> TRUE]
        /\ Step(Caller, [NoTask EXCEPT !.kind = "lookup", !.pc = "find",
                                       !.id = id])
        /\ sent' = sendMessage(
                       Schemas,
                       MkObject([type |-> Str("request-document"),
                                 documentId |-> Str(id)]),
                       Undefined)
        /\ clientEvents' = <<>>
        /\ UNCHANGED <<documents, addedTask, storage, pendingWrites, peers,
                       docAdded, docVars, syncVars, restVars, exVars>>

\* The timer of requestDocument fires after five seconds.
RequestTimeout ==
    /\ request.status \in {"pending", "resolved"}
    /\ request.race = "waiting"
    /\ request' = [request EXCEPT !.race = "timedOut"]
    /\ sent' = {}
    /\ clientEvents' = <<>>
    /\ UNCHANGED <<documents, addedTask, storage, pendingWrites, tasks, peers,
                   docAdded, docVars, syncVars, restVars, exVars>>

\* The promise returned by requestDocument settles.
RequestSettle ==
    LET any == PromiseAny(LookupPromise(tasks[Caller]),
                          RacePromise(request.race))
    IN  /\ Caller \in DOMAIN tasks
        /\ request.status = "pending"
        /\ any.status # "pending"
        /\ request' = [request EXCEPT !.status = any.status,
                                      !.error = any.error]
        /\ sent' = {}
        /\ clientEvents' = <<>>
        /\ UNCHANGED <<documents, addedTask, storage, pendingWrites, tasks,
                       peers, docAdded, docVars, syncVars, restVars, exVars>>

\* The application has taken the outcome of requestDocument, and its lookup
\* has ended.
RequestReturn ==
    /\ Caller \in DOMAIN tasks
    /\ request.status \in {"resolved", "rejected"}
    /\ tasks[Caller].pc = "result"
    /\ request' = NoRequest
    /\ Step(Caller, NoTask)
    /\ sent' = {}
    /\ clientEvents' = <<>>
    /\ UNCHANGED <<documents, addedTask, storage, pendingWrites, peers,
                   docAdded, docVars, syncVars, restVars, exVars>>

Next ==
    \/ ReceiveRequestDocument
    \/ ReceiveDocumentResponse
    \/ ReceiveSignal
    \/ FindDocument
    \/ LoadHeader
    \/ LoadBinary
    \/ RequestDecide
    \/ RequestShare
    \/ RequestCreatePeer
    \/ SignalDecide
    \/ AddedHandler
    \/ StorageWrite
    \/ LocalChange

\* The client under requestDocument calls of the application, with the
\* document-response messages that arrive.
NextRequest ==
    \/ RequestDocument
    \/ FindDocument
    \/ LoadHeader
    \/ LoadBinary
    \/ RequestTimeout
    \/ RequestSettle
    \/ RequestReturn
    \/ ReceiveDocumentResponse
    \/ AddedHandler
    \/ StorageWrite

\* connect(): the signaling client connects with the current session.
Connect ==
    /\ ~connected
    /\ connected' = TRUE
    /\ sent' = {}
    /\ clientEvents' = <<>>
    /\ UNCHANGED <<documents, addedTask, storage, pendingWrites, tasks, peers,
                   docAdded, request, docVars, exVars, syncVars, response,
                   pipeVars, moreVars>>

\* disconnect(): awaits the signaling client's disconnect and returns; the
\* peer manager, the registry and the storage are not called.
Disconnect ==
    /\ connected
    /\ connected' = FALSE
    /\ sent' = {}
    /\ clientEvents' = <<>>
    /\ UNCHANGED <<documents, addedTask, storage, pendingWrites, tasks, peers,
                   docAdded, request, docVars, exVars, syncVars, response,
                   pipeVars, moreVars>>

\* A signal arrives over the signaling connection.
SignalArrives == connected /\ ReceiveSignal

\* The client that connects and disconnects, under the signals that arrive
\* while it is connected.
NextConnection ==
    \/ Connect
    \/ Disconnect
    \/ SignalArrives
    \/ FindDocument
    \/ LoadHeader
    \/ LoadBinary
    \/ SignalDecide
    \/ AddedHandler

\* The client under the document-response messages that arrive, valid or not.
NextResponse ==
    \/ ResponseMessage
    \/ ResponseSettled
    \/ AddedHandler
    \/ StorageWrite

\* ------------------------------------------------------------------ connection

\* How many events of one WebSocketConnection are followed.
MaxEmitted == 3

\* The frames a socket delivers.
Frames == {1, 2}

\* Emittery.emit on the connection: the event is emitted to the listeners
\* the connection has.
ConnectionEmit(w, event) == [w EXCEPT !.emitted = Append(@, event)]

\* The socket's message listener: emits data with the frame.
OnSocketMessage(w, frame) == ConnectionEmit(w, <<"data", frame>>)

\* The socket's close listener: emits close with the reason as an Error.
OnSocketClose(w) == ConnectionEmit(w, <<"close", "closed">>)

\* The socket's error listener: emits close with the error.
OnSocketError(w) == ConnectionEmit(w, <<"close", "error">>)

\* WebSocketConnection.close: closes the socket with code 1000, removes the
\* socket's listeners and clears the listeners of the connection.
ConnectionClose(w) ==
    [w EXCEPT !.socket = IF @ \in {"connecting", "open"} THEN "closing" ELSE @,
              !.socketListeners = FALSE,
              !.listeners = FALSE,
              !.closed = TRUE,
              !.atClose = Len(w.emitted)]

\* The socket opens.
SocketOpen ==
    /\ ws.socket = "connecting"
    /\ ws' = [ws EXCEPT !.socket = "open"]
    /\ UNCHANGED <<docVars, exVars, clientVars, syncVars, response, connected,
                   pipeVars, syncMap, destroyedDocs, deletion, setLog,
                   connecting, waits>>

\* The socket emits message with a frame: its listener, if still there, runs.
SocketMessage ==
    \E frame \in Frames :
        /\ ws.socket = "open"
        /\ Len(ws.emitted) < MaxEmitted
        /\ ws' = IF ws.socketListeners THEN OnSocketMessage(ws, frame) ELSE ws
        /\ UNCHANGED <<docVars, exVars, clientVars, syncVars, response,
                       connected, pipeVars, syncMap, destroyedDocs, deletion,
                       setLog, connecting, waits>>

\* The socket emits error: its listener, if still there, runs. A socket that
\* has failed emits close next.
SocketError ==
    /\ ws.socket \in {"connecting", "open", "closing"}
    /\ \E w \in {[ws EXCEPT !.socket = "failed"]} :
           ws' = IF w.socketListeners THEN OnSocketError(w) ELSE w
    /\ UNCHANGED <<docVars, exVars, clientVars, syncVars, response, connected,
                   pipeVars, syncMap, destroyedDocs, deletion, setLog,
                   connecting, waits>>

\* The socket emits close, after the other side or this side closed it or
\* after it failed: its listener, if still there, runs.
SocketClose ==
    /\ ws.socket \in {"connecting", "open", "closing", "failed"}
    /\ \E w \in {[ws EXCEPT !.socket = "closed"]} :
           ws' = IF w.socketListeners THEN OnSocketClose(w) ELSE w
    /\ UNCHANGED <<docVars, exVars, clientVars, syncVars, response, connected,
                   pipeVars, syncMap, destroyedDocs, deletion, setLog,
                   connecting, waits>>

\* The owner of the connection calls close(cause).
CloseConnection ==
    /\ ws.socket # "none"
    /\ ~ws.closed
    /\ ws' = ConnectionClose(ws)
    /\ UNCHANGED <<docVars, exVars, clientVars, syncVars, response, connected,
                   pipeVars, syncMap, destroyedDocs, deletion, setLog,
                   connecting, waits>>

\* One WebSocketConnection over a socket that opens, delivers frames, fails
\* and closes, and an owner that may close it.
NextSocket ==
    \/ SocketOpen
    \/ SocketMessage
    \/ SocketError
    \/ SocketClose
    \/ CloseConnection

\* ------------------------------------------------------------------ waitForConnection

\* How many connect() and waitForConnection() calls are followed.
MaxConnects == 2

MaxWaits == 2

\* Deferred.reset that keeps the promise it has.
DeferredResetKeeps(d) == d

\* Deferred.reset: a new pending promise takes the place of the current one.
DeferredReset(d) == [d EXCEPT !.promise = @ + 1]

\* Deferred.resolve: the current promise is resolved.
DeferredResolve(d) == [d EXCEPT !.resolved = @ \cup {d.promise}]

\* Whether a waitForConnection call can go on after its await: the promise
\* it took from the Deferred is resolved. It does so before any other event.
Resumable ==
    \E i \in DOMAIN waits :
        waits[i].state = "waiting" /\ waits[i].promise \in connecting.resolved

\* connect(): resets the Deferred and asks the signaling client to connect.
CallConnect ==
    /\ ~Resumable
    /\ connecting.calls < MaxConnects
    /\ connecting' = [DeferredReset(connecting) EXCEPT !.calls = @ + 1]
    /\ UNCHANGED <<docVars, exVars, clientVars, syncVars, response, connected,
                   pipeVars, syncMap, destroyedDocs, deletion, ws, setLog,
                   waits>>

\* The signaling client emits connect, after connect() or after it
\* reconnected by itself: the listener of the constructor resolves the
\* Deferred.
ClientConnects ==
    /\ ~Resumable
    /\ connecting.calls > 0
    /\ ~connected
    /\ connected' = TRUE
    /\ connecting' = [DeferredResolve(connecting) EXCEPT
                         !.followed = 1..connecting.calls]
    /\ UNCHANGED <<docVars, exVars, clientVars, syncVars, response, pipeVars,
                   syncMap, destroyedDocs, deletion, ws, setLog, waits>>

\* The signaling client loses its connection or is disconnected.
ClientDisconnects ==
    /\ ~Resumable
    /\ connected
    /\ connected' = FALSE
    /\ UNCHANGED <<docVars, exVars, clientVars, syncVars, response, pipeVars,
                   syncMap, destroyedDocs, deletion, ws, setLog, connecting,
                   waits>>

\* waitForConnection() is called: it awaits the promise the Deferred has now.
WaitForConnection ==
    /\ ~Resumable
    /\ Len(waits) < MaxWaits
    /\ waits' = Append(waits, [promise  |-> connecting.promise,
                               after    |-> connecting.calls,
                               state    |-> "waiting",
                               result   |-> FALSE,
                               status   |-> FALSE,
                               followed |-> FALSE])
    /\ UNCHANGED <<docVars, exVars, clientVars, syncVars, response, connected,
                   pipeVars, syncMap, destroyedDocs, deletion, ws, setLog,
                   connecting>>

\* waitForConnection() after its await: returns this.client.connected. The
\* call keeps, besides its result, the status of the client at that moment
\* and whether a connect event had followed the connect() call before it.
WaitReturns ==
    \E i \in DOMAIN waits :
        /\ waits[i].state = "waiting"
        /\ waits[i].promise \in connecting.resolved
        /\ waits' = [waits EXCEPT
                         ![i].state = "returned",
                         ![i].result = connected,
                         ![i].status = connected,
                         ![i].followed =
                             waits[i].after \in connecting.followed]
        /\ UNCHANGED <<docVars, exVars, clientVars, syncVars, response,
                       connected, pipeVars, syncMap, destroyedDocs, deletion,
                       ws, setLog, connecting>>

\* The client under connect() and waitForConnection() calls of the
\* application and the connect events of its signaling client.
NextWait ==
    \/ CallConnect
    \/ ClientConnects
    \/ ClientDisconnects
    \/ WaitForConnection
    \/ WaitReturns

\* ------------------------------------------------------------------ storage pipeline

\* A call of the storage: setDocument or save, made by the handler of
\* document-added, document-updated, header-updated or change. It waits
\* (queued), has written the header (header), or has its binary on the way to
\* the provider (put).
Job(op, from) == [op |-> op, from |-> from, pc |-> "queued", data |-> <<>>]

NoJobs == [id \in DocumentIds |-> <<>>]

NoTimers == [id \in DocumentIds |-> "idle"]

\* A storage that lets every call of an id proceed at once.
RunnableAny(queue) == DOMAIN queue

\* Storage: the calls of one id that may proceed. Writes are serialized per
\* document id, so only the oldest call does.
Runnable(queue) == IF queue = <<>> THEN {} ELSE {1}

\* The queue without its i-th call.
Remove(queue, i) ==
    [k \in 1..(Len(queue) - 1) |-> IF k < i THEN queue[k] ELSE queue[k + 1]]

\* Storage.setDocument, first write: hdr/id = header.export().
StoragePutHeader(st, d) ==
    [i \in DOMAIN st \cup {DocumentId(d)} |->
        IF i = DocumentId(d)
        THEN [header |-> HeaderExport(d.header),
              binary |-> IF i \in DOMAIN st THEN st[i].binary ELSE <<>>]
        ELSE st[i]]

\* Storage.save, the write of bin/id: the record of the id takes the binary;
\* an id without a record gets one that has no header.
StoragePutBinary(st, id, data) ==
    IF id \in DOMAIN st
    THEN [st EXCEPT ![id].binary = data]
    ELSE [i \in DOMAIN st \cup {id} |->
             IF i = id THEN [header |-> <<>>, binary |-> data] ELSE st[i]]

\* Storage.remove: hdr/id and bin/id are removed.
StorageRemove(st, id) == [i \in DOMAIN st \ {id} |-> st[i]]

\* The Document objects the handlers and the throttled save hold on to: the
\* documents of the registry and the ones that were destroyed.
Referenced ==
    [id \in DOMAIN documents \cup DOMAIN destroyedDocs |->
        IF id \in DOMAIN documents THEN documents[id] ELSE destroyedDocs[id]]

\* The document-destroyed handler: the synchronizer the map holds for the id
\* is destroyed and lets go of its peers; the map keeps it.
SynchronizersDestroy(map, id) ==
    IF id \in DOMAIN map THEN [map EXCEPT ![id] = {}] ELSE map

\* throttle(fn, 500), trailing edge: a call arms the timer (again), and fn
\* runs once when the timer fires.
throttle(t) == "armed"

\* Whether the listeners the document-added handler puts on the document
\* (header-updated and change) are in place.
Listening(id) == addedTask[id] = "done"

\* The application hands a document it created to the client: the registry
\* stores it and emits document-added.
PipeAdd ==
    \E h \in ClientHeaders :
        /\ h.version = 1
        /\ documents = NoDocuments
        /\ destroyedDocs = <<>>
        /\ storage = <<>>
        /\ \E r \in {RegistrySetDocument(documents, NewDocument(h))} :
               Registered(r, DocumentId(NewDocument(h)))
        /\ sent' = {}
        /\ UNCHANGED <<storage, tasks, peers, request, docVars, exVars,
                       syncVars, restVars>>

\* The document-added handler starts: it calls storage.setDocument and waits
\* for it.
AddedStart ==
    \E id \in DOMAIN Referenced :
        /\ addedTask[id] = "write"
        /\ addedTask' = [addedTask EXCEPT ![id] = "saving"]
        /\ jobs' = [jobs EXCEPT ![id] = Append(@, Job("setDocument", "added"))]
        /\ sent' = {}
        /\ clientEvents' = <<>>
        /\ UNCHANGED <<documents, storage, pendingWrites, tasks, peers,
                       docAdded, request, docVars, exVars, syncVars, response,
                       connected, timer, faults, moreVars>>

\* Storage.setDocument writes the header of the document.
JobHeader ==
    \E id \in DOMAIN Referenced :
        \E i \in Runnable(jobs[id]) :
            /\ jobs[id][i].op = "setDocument"
            /\ jobs[id][i].pc = "queued"
            /\ storage' = StoragePutHeader(storage, Referenced[id])
            /\ jobs' = [jobs EXCEPT ![id][i].pc = "header"]
            /\ sent' = {}
            /\ clientEvents' = <<>>
            /\ UNCHANGED <<documents, addedTask, pendingWrites, tasks, peers,
                           docAdded, request, docVars, exVars, syncVars,
                           response, connected, timer, faults, moreVars>>

\* Storage.setDocument after its header, or Storage.save: A.save of the
\* document's data is taken and handed to the provider.
JobCapture ==
    \E id \in DOMAIN Referenced :
        \E i \in Runnable(jobs[id]) :
            /\ \/ jobs[id][i].op = "save" /\ jobs[id][i].pc = "queued"
               \/ jobs[id][i].op = "setDocument" /\ jobs[id][i].pc = "header"
            /\ jobs' = [jobs EXCEPT
                           ![id][i].pc = "put",
                           ![id][i].data = <<ASave(Referenced[id].data)>>]
            /\ sent' = {}
            /\ clientEvents' = <<>>
            /\ UNCHANGED <<documents, addedTask, storage, pendingWrites, tasks,
                           peers, docAdded, request, docVars, exVars, syncVars,
                           response, connected, timer, faults, moreVars>>

\* The provider has written the binary: the call of the storage ends. The
\* document-added handler that waited for it puts its listeners on the
\* document, creates the synchronizer and emits document-<id>.
JobPut ==
    \E id \in DOMAIN Referenced :
        \E i \in DOMAIN jobs[id] :
            /\ jobs[id][i].pc = "put"
            /\ storage' = StoragePutBinary(storage, id, jobs[id][i].data)
            /\ jobs' = [jobs EXCEPT ![id] = Remove(@, i)]
            /\ IF jobs[id][i].from = "added"
               THEN /\ addedTask' = [addedTask EXCEPT ![id] = "done"]
                    /\ syncMap' = SynchronizersSet(syncMap, id)
                    /\ clientEvents' = <<Event("document-id", id)>>
                    /\ request' = OnceFired(request, id)
               ELSE /\ clientEvents' = <<>>
                    /\ UNCHANGED <<addedTask, request, syncMap>>
            /\ sent' = {}
            /\ UNCHANGED <<documents, pendingWrites, tasks, peers, docAdded,
                           docVars, exVars, syncVars, response, connected,
                           timer, faults, sideVars>>

\* The provider fails to write the binary: the call of the storage rejects.
\* The document-added handler that waited for it ends there, before its
\* listeners are in place; a save called by the throttled save rejects into
\* the change listener, whose promise nobody holds.
JobFails ==
    \E id \in DOMAIN Referenced :
        \E i \in DOMAIN jobs[id] :
            /\ jobs[id][i].pc = "put"
            /\ faults < MaxFaults
            /\ faults' = faults + 1
            /\ jobs' = [jobs EXCEPT ![id] = Remove(@, i)]
            /\ addedTask' = IF jobs[id][i].from = "added"
                            THEN [addedTask EXCEPT ![id] = "failed"]
                            ELSE addedTask
            /\ sent' = {}
            /\ clientEvents' = <<>>
            /\ UNCHANGED <<documents, storage, pendingWrites, tasks, peers,
                           docAdded, request, docVars, exVars, syncVars,
                           response, connected, timer, moreVars>>

\* The application changes the document; the change listener, once in place,
\* calls the throttled save.
PipeChange ==
    \E id \in DOMAIN documents :
        /\ SeqOf(documents[id].data, "a") < MaxBurst
        /\ documents' =
               [documents EXCEPT ![id] = DocChange(documents[id], "a").doc]
        /\ timer' = IF Listening(id)
                    THEN [timer EXCEPT ![id] = throttle(@)]
                    ELSE timer
        /\ sent' = {}
        /\ clientEvents' = <<>>
        /\ UNCHANGED <<addedTask, storage, pendingWrites, tasks, peers,
                       docAdded, request, docVars, exVars, syncVars, response,
                       connected, jobs, faults, moreVars>>

\* The timer of the throttled save fires: storage.save(document) is called.
TimerFires ==
    \E id \in DOMAIN Referenced :
        /\ timer[id] = "armed"
        /\ timer' = [timer EXCEPT ![id] = "idle"]
        /\ jobs' = [jobs EXCEPT ![id] = Append(@, Job("save", "change"))]
        /\ sent' = {}
        /\ clientEvents' = <<>>
        /\ UNCHANGED <<documents, addedTask, storage, pendingWrites, tasks,
                       peers, docAdded, request, docVars, exVars, syncVars,
                       response, connected, faults, moreVars>>

\* The owner upgrades the header of the document; the header-updated
\* listener, once in place, calls storage.setDocument.
PipeUpdateHeader ==
    \E id \in DOMAIN documents :
        \E h \in ClientHeaders :
            \E r \in {DocUpdateHeader(documents[id], h)} :
                /\ h.version = documents[id].header.version + 1
                /\ h.allowedUsers = documents[id].header.allowedUsers
                /\ r.ret
                /\ documents' = [documents EXCEPT ![id] = r.doc]
                /\ jobs' = IF Listening(id)
                           THEN [jobs EXCEPT
                                    ![id] = Append(@, Job("setDocument",
                                                          "header"))]
                           ELSE jobs
                /\ sent' = {}
                /\ clientEvents' = <<>>
                /\ UNCHANGED <<addedTask, storage, pendingWrites, tasks, peers,
                               docAdded, request, docVars, exVars, syncVars,
                               response, connected, timer, faults, moreVars>>

\* The document another client holds, one header version ahead and with a
\* change of its own.
RemoteDocument(d) ==
    [header    |-> MkHeader(d.header.address, d.header.owner,
                            d.header.version + 1, d.header.allowedUsers,
                            d.header.metadata, SessionPrivateKey),
     data      |-> AChange(AInit, "b"),
     destroyed |-> FALSE]

\* setDocument with a document whose id the registry holds: the registry
\* merges it and emits document-updated, whose handler calls
\* storage.setDocument; the listeners on the document, once in place, take
\* the header-updated and the change of the merge.
PipeMerge ==
    \E id \in DOMAIN documents :
        \E r \in {RegistrySetDocument(documents, RemoteDocument(documents[id]))} :
            /\ documents[id].header.version < MaxVersion
            /\ documents' = r.documents
            /\ jobs' =
                   [jobs EXCEPT
                       ![id] =
                           @ \o (IF /\ Listening(id)
                                    /\ \E e \in Range(r.docEvents) :
                                           e.name = "header-updated"
                                 THEN <<Job("setDocument", "header")>>
                                 ELSE <<>>)
                             \o <<Job("setDocument", "updated")>>]
            /\ timer' = IF /\ Listening(id)
                           /\ \E e \in Range(r.docEvents) : e.name = "change"
                        THEN [timer EXCEPT ![id] = throttle(@)]
                        ELSE timer
            /\ sent' = {}
            /\ clientEvents' = r.events
            /\ UNCHANGED <<addedTask, storage, pendingWrites, tasks, peers,
                           docAdded, request, docVars, exVars, syncVars,
                           response, connected, faults, moreVars>>

\* A later session: a new client over the same storage looks the document up.
Restart ==
    \E id \in DOMAIN documents :
        /\ Caller \in DOMAIN tasks
        /\ tasks[Caller].kind = "none"
        /\ documents' = NoDocuments
        /\ addedTask' = NoAddedTasks
        /\ docAdded' = NoneAdded
        /\ jobs' = NoJobs
        /\ timer' = NoTimers
        /\ Step(Caller, [NoTask EXCEPT !.kind = "lookup", !.pc = "find",
                                       !.id = id])
        /\ sent' = {}
        /\ clientEvents' = <<>>
        /\ UNCHANGED <<storage, pendingWrites, peers, request, docVars, exVars,
                       syncVars, response, connected, faults, moreVars>>

\* deleteDocument: removeDocument destroys the document, whose
\* document-destroyed handler destroys the synchronizer of the id, and
\* storage.remove is called at the same time; the throttled save and the
\* calls of the storage that are under way are left as they are.
PipeDelete ==
    \E id \in DOMAIN documents :
        /\ deletion[id] = "none"
        /\ \E r \in {RegistryRemoveDocument(documents, id)} :
               /\ documents' = r.documents
               /\ destroyedDocs' =
                      [i \in DOMAIN destroyedDocs \cup {id} |->
                          IF i = id THEN r.destroyed[1] ELSE destroyedDocs[i]]
               /\ clientEvents' = r.events
        /\ syncMap' = SynchronizersDestroy(syncMap, id)
        /\ jobs' = [jobs EXCEPT ![id] = Append(@, Job("remove", "delete"))]
        /\ deletion' = [deletion EXCEPT ![id] = "removing"]
        /\ sent' = {}
        /\ UNCHANGED <<addedTask, storage, pendingWrites, tasks, peers,
                       docAdded, request, docVars, exVars, syncVars, response,
                       connected, timer, faults, ws, setLog, connecting,
                       waits>>

\* Storage.remove takes its turn among the calls of the id and removes the
\* records; deleteDocument is complete.
JobRemove ==
    \E id \in DOMAIN destroyedDocs :
        \E i \in Runnable(jobs[id]) :
            /\ jobs[id][i].op = "remove"
            /\ storage' = StorageRemove(storage, id)
            /\ jobs' = [jobs EXCEPT ![id] = Remove(@, i)]
            /\ deletion' = [deletion EXCEPT ![id] = "done"]
            /\ sent' = {}
            /\ clientEvents' = <<>>
            /\ UNCHANGED <<documents, addedTask, pendingWrites, tasks, peers,
                           docAdded, request, docVars, exVars, syncVars,
                           response, connected, timer, faults, syncMap,
                           destroyedDocs, ws, setLog, connecting, waits>>

\* The client's storage pipeline under an application that adds, changes and
\* upgrades a document, with a provider that writes what it is given.
NextStorage ==
    \/ PipeAdd
    \/ AddedStart
    \/ JobHeader
    \/ JobCapture
    \/ JobPut
    \/ PipeChange
    \/ TimerFires
    \/ PipeUpdateHeader
    \/ PipeMerge

\* The storage pipeline under an application that also deletes the document.
NextDelete ==
    \/ PipeAdd
    \/ AddedStart
    \/ JobHeader
    \/ JobCapture
    \/ JobPut
    \/ PipeChange
    \/ TimerFires
    \/ PipeUpdateHeader
    \/ PipeMerge
    \/ PipeDelete
    \/ JobRemove

\* The storage pipeline over a provider whose binary writes can fail, and a
\* later session over the same storage.
NextStorageFaults ==
    \/ PipeAdd
    \/ AddedStart
    \/ JobHeader
    \/ JobCapture
    \/ JobPut
    \/ JobFails
    \/ PipeChange
    \/ TimerFires
    \/ Restart
    \/ FindDocument
    \/ LoadHeader
    \/ LoadBinary

\* ------------------------------------------------------------------ two clients

\* Two clients on one signaling server: A owns the document and allows B.
Clients == {"A", "B"}

Other(c) == IF c = "A" THEN "B" ELSE "A"

\* sessionManager.currentSession.privateKey of each client.
SessionKeyOf(c) == IF c = "A" THEN 1 ELSE 2

\* What a message of the client carries as its from.
Identity(c) ==
    [publicKey |-> getPublicKey(SessionKeyOf(c)), clientId |-> SessionKeyOf(c)]

\* The Automerge actor of each client.
ActorOf(c) == IF c = "A" THEN "a" ELSE "b"

\* The document A created with B as an allowed user.
SharedDocument == DocCreate(1, {getPublicKey(2)}, "x", 1)

SharedId == DocumentId(SharedDocument)

\* The version-2 header A signs to add user C.
UpgradedHeader ==
    MkHeader(SharedDocument.header.address, getPublicKey(1), 2,
             {getPublicKey(2), getPublicKey(3)}, "x", 1)

\* The registry of a client as its documents by id.
RegistryOf(reg) ==
    IF reg = <<>> THEN NoDocuments ELSE [i \in {DocumentId(reg[1])} |-> reg[1]]

\* A.initSyncState: nothing is known of the other side and nothing was sent.
InitSyncState == [theirHeads |-> <<>>, lastSentHeads |-> <<>>]

\* The changes a set of heads stands for: the heads and what they depend on.
Ancestors(heads) == UNION {{<<c[1], n>> : n \in 1..c[2]} : c \in heads}

\* A.generateSyncMessage: our heads and the changes the other side is known
\* to lack; nothing once the other side has our heads and heard them from us.
generateSyncMessage(data, state) ==
    LET ours == getHeads(data)
    IN  IF state.theirHeads = <<ours>> /\ state.lastSentHeads = <<ours>>
        THEN [message |-> <<>>, state |-> state]
        ELSE [message |->
                  <<[heads   |-> ours,
                     changes |-> IF state.theirHeads = <<>>
                                 THEN {}
                                 ELSE data \ Ancestors(state.theirHeads[1])]>>,
              state |-> [state EXCEPT !.lastSentHeads = <<ours>>]]

\* A.receiveSyncMessage: the message's changes are added and the heads of the
\* other side are remembered.
receiveSyncMessage(data, state, message) ==
    [data  |-> AMerge(data, message.changes),
     state |-> [state EXCEPT !.theirHeads = <<message.heads>>]]

\* No synchronizer yet for the document.
NoSynchronizer ==
    [exists |-> FALSE, attached |-> FALSE, syncState |-> InitSyncState]

\* The synchronizer on peer-created for its document: it takes the peer with
\* a fresh sync state and queues the first sync message. A synchronizer that
\* does not exist yet hears nothing.
OnPeerCreated(sy, data) ==
    IF sy.exists
    THEN LET g == generateSyncMessage(data, InitSyncState)
         IN  [synchronizer |-> [sy EXCEPT !.attached = TRUE,
                                          !.syncState = g.state],
              out |-> g.message]
    ELSE [synchronizer |-> sy, out |-> <<>>]

\* The synchronizer on the events of a document call: on change, the next
\* sync message for its peer, sent when there is one.
OnChange(sy, data, events) ==
    IF sy.attached /\ \E i \in DOMAIN events : events[i].name = "change"
    THEN LET g == generateSyncMessage(data, sy.syncState)
         IN  [synchronizer |-> [sy EXCEPT !.syncState = g.state],
              out |-> g.message]
    ELSE [synchronizer |-> sy, out |-> <<>>]

\* The synchronizer on inbound peer data: the change set is applied through
\* Document.update and a follow-up message is produced when there is one.
OnData(sy, d, message) ==
    LET r == receiveSyncMessage(d.data, sy.syncState, message)
        u == DocUpdate(d, r.data)
        g == generateSyncMessage(u.doc.data, r.state)
    IN  [doc |-> u.doc,
         synchronizer |-> [sy EXCEPT !.syncState = g.state],
         out |-> g.message]

SignalingMessage(type, from, document) ==
    [type |-> type, from |-> from, document |-> document]

NoReplicas == [c \in Clients |-> <<>>]

NoSynchronizers == [c \in Clients |-> NoSynchronizer]

NoRtc == [c \in Clients |-> "none"]

NoMessages == [c \in Clients |-> <<>>]

NotAdded == [c \in Clients |-> "none"]

\* B calls requestDocument: the request-document broadcast goes out.
SyncRequestDocument ==
    /\ ~requested
    /\ replica["B"] = <<>>
    /\ requested' = TRUE
    /\ signaling' =
           [signaling EXCEPT
               !["A"] = Append(@, SignalingMessage("request-document", "B",
                                                   <<>>))]
    /\ UNCHANGED <<replica, synchronizers, rtc, channel, added, docVars,
                   exVars, clientVars, restVars>>

\* The request-document handler: when the document is found and the sender
\* is allowed, the export is sent to the sender and an initiator peer is
\* created, which sends its offer and is announced by peer-created.
SyncOnRequest ==
    \E c \in Clients :
        /\ signaling[c] # <<>>
        /\ Head(signaling[c]).type = "request-document"
        /\ \E from \in {Head(signaling[c]).from} :
               IF RequestAllowed(replica[c] # <<>>, RegistryOf(replica[c]),
                                 SharedId, Identity(from))
               THEN \E export \in {DocExport(replica[c][1],
                                             SessionKeyOf(c)).ret} :
                    \E p \in {OnPeerCreated(synchronizers[c],
                                            replica[c][1].data)} :
                        /\ export.ok
                        /\ signaling' =
                               [signaling EXCEPT
                                   ![c] = Tail(@),
                                   ![from] =
                                       @ \o <<SignalingMessage(
                                                  "document-response", c,
                                                  <<Encode(export)>>),
                                              SignalingMessage("offer", c,
                                                               <<>>)>>]
                        /\ rtc' = [rtc EXCEPT ![c] = "connecting"]
                        /\ synchronizers' =
                               [synchronizers EXCEPT ![c] = p.synchronizer]
                        /\ channel' = [channel EXCEPT ![from] = @ \o p.out]
               ELSE /\ signaling' = [signaling EXCEPT ![c] = Tail(@)]
                    /\ UNCHANGED <<rtc, synchronizers, channel>>
        /\ UNCHANGED <<replica, added, requested, docVars, exVars,
                       clientVars, restVars>>

\* The document-response handler: the imported document is handed to the
\* registry; a document the registry did not hold starts the document-added
\* handler.
SyncOnResponse ==
    \E c \in Clients :
        /\ signaling[c] # <<>>
        /\ Head(signaling[c]).type = "document-response"
        /\ \E imported \in {DocImport(Head(signaling[c]).document[1])} :
               IF imported.ok
               THEN \E r \in {OnDocumentResponse(NoRequest,
                                                 RegistryOf(replica[c]),
                                                 imported.doc)} :
                        /\ replica' =
                               [replica EXCEPT
                                   ![c] = <<r.documents[SharedId]>>]
                        /\ added' =
                               [added EXCEPT
                                   ![c] = IF r.events[1].name =
                                              "document-added"
                                          THEN "write"
                                          ELSE @]
               ELSE UNCHANGED <<replica, added>>
        /\ signaling' = [signaling EXCEPT ![c] = Tail(@)]
        /\ UNCHANGED <<synchronizers, rtc, channel, requested, docVars,
                       exVars, clientVars, restVars>>

\* The document-added handler after storage.setDocument: the listeners are
\* set, the synchronizer of the document is constructed and document-<id> is
\* emitted.
SyncAddedHandler ==
    \E c \in Clients :
        /\ added[c] = "write"
        /\ added' = [added EXCEPT ![c] = "done"]
        /\ synchronizers' = [synchronizers EXCEPT ![c].exists = TRUE]
        /\ UNCHANGED <<replica, rtc, signaling, channel, requested, docVars,
                       exVars, clientVars, restVars>>

\* The peer manager on an offer: when verifyIncomingSignal accepts it, a
\* non-initiator peer is created, announced by peer-created, and answers;
\* otherwise the signal is dropped.
SyncOnOffer ==
    \E c \in Clients :
        /\ signaling[c] # <<>>
        /\ Head(signaling[c]).type = "offer"
        /\ \E from \in {Head(signaling[c]).from} :
               IF verifyIncomingSignal(replica[c] # <<>>,
                                       RegistryOf(replica[c]), SharedId,
                                       Identity(from))
               THEN \E p \in {OnPeerCreated(synchronizers[c],
                                            replica[c][1].data)} :
                        /\ rtc' = [rtc EXCEPT ![c] = "connected"]
                        /\ signaling' =
                               [signaling EXCEPT
                                   ![c] = Tail(@),
                                   ![from] =
                                       Append(@, SignalingMessage(
                                                     "answer", c, <<>>))]
                        /\ synchronizers' =
                               [synchronizers EXCEPT ![c] = p.synchronizer]
                        /\ channel' = [channel EXCEPT ![from] = @ \o p.out]
               ELSE /\ signaling' = [signaling EXCEPT ![c] = Tail(@)]
                    /\ UNCHANGED <<rtc, synchronizers, channel>>
        /\ UNCHANGED <<replica, added, requested, docVars, exVars,
                       clientVars, restVars>>

\* The initiator's peer on the answer: the data channel opens.
SyncOnAnswer ==
    \E c \in Clients :
        /\ signaling[c] # <<>>
        /\ Head(signaling[c]).type = "answer"
        /\ signaling' = [signaling EXCEPT ![c] = Tail(@)]
        /\ rtc' = [rtc EXCEPT ![c] = "connected"]
        /\ UNCHANGED <<replica, synchronizers, channel, added, requested,
                       docVars, exVars, clientVars, restVars>>

\* The application of a client changes its document; the synchronizer hears
\* the change event.
SyncLocalChange ==
    \E c \in Clients :
        /\ replica[c] # <<>>
        /\ SeqOf(replica[c][1].data, ActorOf(c)) < MaxSeq
        /\ \E r \in {DocChange(replica[c][1], ActorOf(c))} :
           \E s \in {OnChange(synchronizers[c], r.doc.data, r.events)} :
               /\ replica' = [replica EXCEPT ![c] = <<r.doc>>]
               /\ synchronizers' =
                      [synchronizers EXCEPT ![c] = s.synchronizer]
               /\ channel' = [channel EXCEPT ![Other(c)] = @ \o s.out]
        /\ UNCHANGED <<rtc, signaling, added, requested, docVars, exVars,
                       clientVars, restVars>>

\* A sync message arrives over the connected peer; a client whose
\* synchronizer does not hold the peer has no listener for it.
SyncDeliver ==
    \E c \in Clients :
        /\ channel[c] # <<>>
        /\ rtc[c] = "connected"
        /\ rtc[Other(c)] = "connected"
        /\ IF synchronizers[c].attached
           THEN \E r \in {OnData(synchronizers[c], replica[c][1],
                                 Head(channel[c]))} :
                    /\ replica' = [replica EXCEPT ![c] = <<r.doc>>]
                    /\ synchronizers' =
                           [synchronizers EXCEPT ![c] = r.synchronizer]
                    /\ channel' =
                           [channel EXCEPT ![c] = Tail(@),
                                           ![Other(c)] = @ \o r.out]
           ELSE /\ channel' = [channel EXCEPT ![c] = Tail(@)]
                /\ UNCHANGED <<replica, synchronizers>>
        /\ UNCHANGED <<rtc, signaling, added, requested, docVars, exVars,
                       clientVars, restVars>>

\* A installs the header that adds user C.
SyncUpdateHeader ==
    /\ replica["A"] # <<>>
    /\ replica["A"][1].header.version < UpgradedHeader.version
    /\ \E r \in {DocUpdateHeader(replica["A"][1], UpgradedHeader)} :
           /\ r.ret
           /\ replica' = [replica EXCEPT !["A"] = <<r.doc>>]
    /\ UNCHANGED <<synchronizers, rtc, signaling, channel, added, requested,
                   docVars, exVars, clientVars, restVars>>

\* The document-destroyed handler: the synchronizer the map holds for the id
\* is destroyed and lets go of its peer; without one nothing is done.
OnDocumentDestroyed(sy) == IF sy.exists THEN NoSynchronizer ELSE sy

\* The application of a client removes the document. A document-added
\* handler of the document that still awaits its storage write goes on.
SyncRemoveDocument ==
    \E c \in Clients :
        /\ replica[c] # <<>>
        /\ \E r \in {RegistryRemoveDocument(RegistryOf(replica[c]),
                                            SharedId)} :
               /\ r.events # <<>>
               /\ replica' = [replica EXCEPT ![c] = <<>>]
               /\ synchronizers' =
                      [synchronizers EXCEPT ![c] = OnDocumentDestroyed(@)]
        /\ UNCHANGED <<rtc, signaling, channel, added, requested, docVars,
                       exVars, clientVars, restVars>>

\* Two clients: the second requests the document of the first, the peer is
\* set up over the signaling server, and both change the document.
NextSync ==
    \/ SyncRequestDocument
    \/ SyncOnRequest
    \/ SyncOnResponse
    \/ SyncAddedHandler
    \/ SyncOnOffer
    \/ SyncOnAnswer
    \/ SyncLocalChange
    \/ SyncDeliver
    \/ SyncUpdateHeader

\* Two clients whose applications may also remove the document.
NextSyncRemove ==
    \/ SyncRequestDocument
    \/ SyncOnRequest
    \/ SyncOnResponse
    \/ SyncAddedHandler
    \/ SyncOnOffer
    \/ SyncOnAnswer
    \/ SyncLocalChange
    \/ SyncDeliver
    \/ SyncUpdateHeader
    \/ SyncRemoveDocument

\* ------------------------------------------------------------------ specifications

\* No deleteDocument has been called.
NoDeletions == [id \in DocumentIds |-> "none"]

\* No WebSocketConnection has been constructed.
NoSocket ==
    [socket |-> "none", socketListeners |-> FALSE, listeners |-> FALSE,
     closed |-> FALSE, emitted |-> <<>>, atClose |-> 0]

\* setClient has not been called more than once.
NoSetLog == [before |-> "none", again |-> FALSE]

\* The Deferred after construction: its first promise, not resolved; connect()
\* has not been called.
NoDeferred == [promise |-> 0, resolved |-> {}, calls |-> 0, followed |-> {}]

\* The parts of the client that a specification leaves at rest.
RestIdle ==
    /\ response = NoResponse
    /\ connected = FALSE
    /\ jobs = NoJobs
    /\ timer = NoTimers
    /\ faults = 0
    /\ syncMap = <<>>
    /\ destroyedDocs = <<>>
    /\ deletion = NoDeletions
    /\ ws = NoSocket
    /\ setLog = NoSetLog
    /\ connecting = NoDeferred
    /\ waits = <<>>

\* A Document created by user A with any list of allowed users, and calls of
\* its methods.
InitDocument ==
    /\ \E users \in UserLists : doc = DocCreate(1, users, "x", 1)
    /\ lastOp = Idle
    /\ clientHandler = "none"
    /\ listeners = NoListeners
    /\ exLast = ExIdle
    /\ exDropped = 0
    /\ lastSend = NoSend
    /\ documents = NoDocuments
    /\ addedTask = NoAddedTasks
    /\ storage = <<>>
    /\ pendingWrites = {}
    /\ tasks = NoTasks
    /\ peers = {}
    /\ sent = {}
    /\ clientEvents = <<>>
    /\ docAdded = NoneAdded
    /\ request = NoRequest
    /\ replica = NoReplicas
    /\ synchronizers = NoSynchronizers
    /\ rtc = NoRtc
    /\ signaling = NoMessages
    /\ channel = NoMessages
    /\ added = NotAdded
    /\ requested = FALSE
    /\ RestIdle

SpecDocument == InitDocument /\ [][NextDocument]_vars

\* A MessageExchanger after construction, and its signaling clients.
InitExchanger ==
    /\ doc = DocCreate(1, {}, "x", 1)
    /\ lastOp = Idle
    /\ clientHandler = "none"
    /\ listeners = NoListeners
    /\ exLast = ExIdle
    /\ exDropped = 0
    /\ lastSend = NoSend
    /\ documents = NoDocuments
    /\ addedTask = NoAddedTasks
    /\ storage = <<>>
    /\ pendingWrites = {}
    /\ tasks = NoTasks
    /\ peers = {}
    /\ sent = {}
    /\ clientEvents = <<>>
    /\ docAdded = NoneAdded
    /\ request = NoRequest
    /\ replica = NoReplicas
    /\ synchronizers = NoSynchronizers
    /\ rtc = NoRtc
    /\ signaling = NoMessages
    /\ channel = NoMessages
    /\ added = NotAdded
    /\ requested = FALSE
    /\ RestIdle

SpecExchanger == InitExchanger /\ [][NextExchanger]_vars

\* A sharing client after construction: the exchanger is set to its signaling
\* client, the registry is empty, and the storage is empty or holds a
\* document saved by an earlier session.
Init ==
    /\ doc = DocCreate(1, {}, "x", 1)
    /\ lastOp = Idle
    /\ clientHandler = "c1"
    /\ listeners = [NoListeners EXCEPT !["c1"] = 1]
    /\ exLast = ExIdle
    /\ exDropped = 0
    /\ lastSend = NoSend
    /\ documents = NoDocuments
    /\ addedTask = NoAddedTasks
    /\ \/ storage = <<>>
       \/ \E h \in ClientHeaders :
              /\ h.version = 1
              /\ storage = [id \in {DocumentId(NewDocument(h))} |->
                               StorageRecord(h, AInit)]
    /\ pendingWrites = {}
    /\ tasks = NoTasks
    /\ peers = {}
    /\ sent = {}
    /\ clientEvents = <<>>
    /\ docAdded = NoneAdded
    /\ request = NoRequest
    /\ replica = NoReplicas
    /\ synchronizers = NoSynchronizers
    /\ rtc = NoRtc
    /\ signaling = NoMessages
    /\ channel = NoMessages
    /\ added = NotAdded
    /\ requested = FALSE
    /\ RestIdle

Spec == Init /\ [][Next]_vars

\* A sharing client after construction, over a storage that is empty or
\* holds a document written by storage.setDocument in an earlier session,
\* whose application calls requestDocument; every storage read ends, the timer fires, and a promise
\* that can settle does.
InitRequest ==
    /\ doc = DocCreate(1, {}, "x", 1)
    /\ lastOp = Idle
    /\ clientHandler = "c1"
    /\ listeners = [NoListeners EXCEPT !["c1"] = 1]
    /\ exLast = ExIdle
    /\ exDropped = 0
    /\ lastSend = NoSend
    /\ documents = NoDocuments
    /\ addedTask = NoAddedTasks
    /\ \/ storage = <<>>
       \/ \E h \in ClientHeaders, c \in ClientCrdts :
              storage = StorageSetDocument(
                            <<>>, [header |-> h, data |-> c,
                                   destroyed |-> FALSE])
    /\ pendingWrites = {}
    /\ tasks = [s \in {Caller} |-> NoTask]
    /\ peers = {}
    /\ sent = {}
    /\ clientEvents = <<>>
    /\ docAdded = NoneAdded
    /\ request = NoRequest
    /\ replica = NoReplicas
    /\ synchronizers = NoSynchronizers
    /\ rtc = NoRtc
    /\ signaling = NoMessages
    /\ channel = NoMessages
    /\ added = NotAdded
    /\ requested = FALSE
    /\ RestIdle

SpecRequest ==
    /\ InitRequest
    /\ [][NextRequest]_vars
    /\ WF_vars(FindDocument)
    /\ WF_vars(LoadHeader)
    /\ WF_vars(LoadBinary)
    /\ WF_vars(RequestTimeout)
    /\ WF_vars(RequestSettle)

\* Client A holds the document it created, with its synchronizer; client B
\* holds nothing. Handlers that can run do run, and messages in flight are
\* delivered; nothing obliges the applications to call.
InitSync ==
    /\ doc = DocCreate(1, {}, "x", 1)
    /\ lastOp = Idle
    /\ clientHandler = "none"
    /\ listeners = NoListeners
    /\ exLast = ExIdle
    /\ exDropped = 0
    /\ lastSend = NoSend
    /\ documents = NoDocuments
    /\ addedTask = NoAddedTasks
    /\ storage = <<>>
    /\ pendingWrites = {}
    /\ tasks = NoTasks
    /\ peers = {}
    /\ sent = {}
    /\ clientEvents = <<>>
    /\ docAdded = NoneAdded
    /\ request = NoRequest
    /\ replica = [c \in Clients |->
                     IF c = "A" THEN <<SharedDocument>> ELSE <<>>]
    /\ synchronizers = [c \in Clients |->
                           IF c = "A"
                           THEN [NoSynchronizer EXCEPT !.exists = TRUE]
                           ELSE NoSynchronizer]
    /\ rtc = NoRtc
    /\ signaling = NoMessages
    /\ channel = NoMessages
    /\ added = [c \in Clients |-> IF c = "A" THEN "done" ELSE "none"]
    /\ requested = FALSE
    /\ RestIdle

SpecSync ==
    /\ InitSync
    /\ [][NextSync]_vars
    /\ WF_vars(SyncOnRequest)
    /\ WF_vars(SyncOnResponse)
    /\ WF_vars(SyncAddedHandler)
    /\ WF_vars(SyncOnOffer)
    /\ WF_vars(SyncOnAnswer)
    /\ WF_vars(SyncDeliver)

\* The two clients, each free to remove the document at any time.
SpecSyncRemove == InitSync /\ [][NextSyncRemove]_vars

\* A sharing client after construction, not yet connected, over a storage
\* that is empty or holds a document of an earlier session.
SpecConnection == Init /\ [][NextConnection]_vars

\* A sharing client after construction over an empty storage, with an
\* application that adds a document and works on it.
InitStorage ==
    /\ doc = DocCreate(1, {}, "x", 1)
    /\ lastOp = Idle
    /\ clientHandler = "c1"
    /\ listeners = [NoListeners EXCEPT !["c1"] = 1]
    /\ exLast = ExIdle
    /\ exDropped = 0
    /\ lastSend = NoSend
    /\ documents = NoDocuments
    /\ addedTask = NoAddedTasks
    /\ storage = <<>>
    /\ pendingWrites = {}
    /\ tasks = [s \in {Caller} |-> NoTask]
    /\ peers = {}
    /\ sent = {}
    /\ clientEvents = <<>>
    /\ docAdded = NoneAdded
    /\ request = NoRequest
    /\ replica = NoReplicas
    /\ synchronizers = NoSynchronizers
    /\ rtc = NoRtc
    /\ signaling = NoMessages
    /\ channel = NoMessages
    /\ added = NotAdded
    /\ requested = FALSE
    /\ RestIdle

SpecStorage == InitStorage /\ [][NextStorage]_vars

\* The client over an empty storage, whose application adds, changes and
\* deletes a document.
SpecDelete == InitStorage /\ [][NextDelete]_vars

SpecStorageFaults == InitStorage /\ [][NextStorageFaults]_vars

\* A sharing client after construction over an empty storage, receiving
\* document-response messages.
InitResponse ==
    /\ doc = DocCreate(1, {}, "x", 1)
    /\ lastOp = Idle
    /\ clientHandler = "c1"
    /\ listeners = [NoListeners EXCEPT !["c1"] = 1]
    /\ exLast = ExIdle
    /\ exDropped = 0
    /\ lastSend = NoSend
    /\ documents = NoDocuments
    /\ addedTask = NoAddedTasks
    /\ storage = <<>>
    /\ pendingWrites = {}
    /\ tasks = NoTasks
    /\ peers = {}
    /\ sent = {}
    /\ clientEvents = <<>>
    /\ docAdded = NoneAdded
    /\ request = NoRequest
    /\ replica = NoReplicas
    /\ synchronizers = NoSynchronizers
    /\ rtc = NoRtc
    /\ signaling = NoMessages
    /\ channel = NoMessages
    /\ added = NotAdded
    /\ requested = FALSE
    /\ RestIdle

SpecResponse == InitResponse /\ [][NextResponse]_vars

\* A WebSocketConnection after construction over a socket that is connecting,
\* with listeners on its data and close events.
InitSocket ==
    /\ doc = DocCreate(1, {}, "x", 1)
    /\ lastOp = Idle
    /\ clientHandler = "none"
    /\ listeners = NoListeners
    /\ exLast = ExIdle
    /\ exDropped = 0
    /\ lastSend = NoSend
    /\ documents = NoDocuments
    /\ addedTask = NoAddedTasks
    /\ storage = <<>>
    /\ pendingWrites = {}
    /\ tasks = NoTasks
    /\ peers = {}
    /\ sent = {}
    /\ clientEvents = <<>>
    /\ docAdded = NoneAdded
    /\ request = NoRequest
    /\ replica = NoReplicas
    /\ synchronizers = NoSynchronizers
    /\ rtc = NoRtc
    /\ signaling = NoMessages
    /\ channel = NoMessages
    /\ added = NotAdded
    /\ requested = FALSE
    /\ response = NoResponse
    /\ connected = FALSE
    /\ jobs = NoJobs
    /\ timer = NoTimers
    /\ faults = 0
    /\ syncMap = <<>>
    /\ destroyedDocs = <<>>
    /\ deletion = NoDeletions
    /\ ws = [NoSocket EXCEPT !.socket = "connecting",
                             !.socketListeners = TRUE,
                             !.listeners = TRUE]
    /\ setLog = NoSetLog
    /\ connecting = NoDeferred
    /\ waits = <<>>

SpecSocket == InitSocket /\ [][NextSocket]_vars

\* A sharing client after construction, not connected, whose application
\* calls connect() and waitForConnection().
SpecWait == Init /\ [][NextWait]_vars

\* A second document of user A that the client holds from the start: it is
\* registered, stored, and has its synchronizer; no message names it.
OtherDocument == DocCreate(SessionPrivateKey, {}, "x", 2)

OtherId == DocumentId(OtherDocument)

\* The messages of remote clients and the handlers and storage writes they
\* start; the application makes no change of its own.
NextPeers ==
    \/ ReceiveRequestDocument
    \/ ReceiveDocumentResponse
    \/ ReceiveSignal
    \/ FindDocument
    \/ LoadHeader
    \/ LoadBinary
    \/ RequestDecide
    \/ RequestShare
    \/ RequestCreatePeer
    \/ SignalDecide
    \/ AddedHandler
    \/ StorageWrite

\* A sharing client that holds the second document and has the shared one in
\* its storage, with user B allowed or not.
InitPeers ==
    /\ doc = DocCreate(1, {}, "x", 1)
    /\ lastOp = Idle
    /\ clientHandler = "c1"
    /\ listeners = [NoListeners EXCEPT !["c1"] = 1]
    /\ exLast = ExIdle
    /\ exDropped = 0
    /\ lastSend = NoSend
    /\ documents = [id \in {OtherId} |-> OtherDocument]
    /\ addedTask = [id \in DocumentIds \cup {OtherId} |->
                        IF id = OtherId THEN "done" ELSE "none"]
    /\ \E h \in ClientHeaders :
           /\ h.version = 1
           /\ storage = [id \in {DocumentId(NewDocument(h)), OtherId} |->
                            IF id = OtherId
                            THEN StorageRecord(OtherDocument.header, AInit)
                            ELSE StorageRecord(h, AInit)]
    /\ pendingWrites = {}
    /\ tasks = NoTasks
    /\ peers = {}
    /\ sent = {}
    /\ clientEvents = <<>>
    /\ docAdded = [id \in DocumentIds \cup {OtherId} |->
                       IF id = OtherId THEN 1 ELSE 0]
    /\ request = NoRequest
    /\ replica = NoReplicas
    /\ synchronizers = NoSynchronizers
    /\ rtc = NoRtc
    /\ signaling = NoMessages
    /\ channel = NoMessages
    /\ added = NotAdded
    /\ requested = FALSE
    /\ response = NoResponse
    /\ connected = FALSE
    /\ jobs = NoJobs
    /\ timer = NoTimers
    /\ faults = 0
    /\ syncMap = [id \in {OtherId} |-> {}]
    /\ destroyedDocs = <<>>
    /\ deletion = NoDeletions
    /\ ws = NoSocket
    /\ setLog = NoSetLog
    /\ connecting = NoDeferred
    /\ waits = <<>>

SpecPeers == InitPeers /\ [][NextPeers]_vars

\* ------------------------------------------------------------------ claims

\* C1: export(pk) returns an export if and only if pubkey(pk) is an allowed
\* user of the header; otherwise it fails with Unauthorized; in both cases the
\* document's header and CRDT state are the ones before the call.
C1_ExportAuthorization ==
    lastOp.op = "export" =>
        /\ lastOp.ret.ok <=>
               getPublicKey(lastOp.arg) \in lastOp.pre.header.allowedUsers
        /\ ~lastOp.ret.ok => lastOp.ret.error = "Unauthorized"
        /\ lastOp.ret.ok =>
               /\ lastOp.ret.content = ASave(lastOp.pre.data)
               /\ lastOp.ret.header = HeaderExport(lastOp.pre.header)
        /\ doc = lastOp.pre

\* An export refused for a user that is not allowed, on a changed document.
C1_Witness ==
    /\ lastOp.op = "export"
    /\ ~lastOp.ret.ok
    /\ doc.data # AInit

\* C2: the client sends a document-response to a requester, and creates an
\* initiator peer toward it, only when the requester's public key was an
\* allowed user of the document's header when its request was decided.
C2_AclGating ==
    /\ \A m \in sent :
           m.data[2].type = Str("document-response") =>
               LET t == tasks[m.to]
               IN  /\ t.kind = "request"
                   /\ t.pc = "share"
                   /\ t.found
                   /\ t.id \in DOMAIN documents
                   /\ m.data[2].document[2].header =
                          HeaderExport(documents[t.id].header)
                   /\ m.to.publicKey \in documents[t.id].header.allowedUsers
    /\ \A s \in Senders : tasks[s].pc \in {"share", "peer"} => tasks[s].allowed
    /\ \A p \in peers : p.initiator => p.allowed

\* An initiator peer toward a requester that was allowed when its request was
\* decided and has been removed from the allowed users since.
C2_Witness ==
    \E p \in peers :
        /\ p.initiator
        /\ p.allowed
        /\ p.remote.publicKey
               \notin documents[p.documentId].header.allowedUsers

\* C3: a non-initiator peer appears only in the step that decides a signal
\* whose document was found with the sender as an allowed user; a signal
\* decided otherwise leaves the peers as they were, sends nothing and emits
\* nothing.
C3_SignalGating ==
    [][\A s \in Senders :
          /\ \A p \in peers' \ peers :
                 (~p.initiator /\ p.remote = s) =>
                     /\ tasks[s].kind = "signal"
                     /\ tasks[s].pc = "result"
                     /\ p.documentId = tasks[s].id
                     /\ Allowed(tasks[s].found, tasks[s].id, s)
                     /\ p.allowed
          /\ (/\ tasks[s].kind = "signal"
              /\ tasks[s].pc = "result"
              /\ tasks'[s].kind = "none"
              /\ ~Allowed(tasks[s].found, tasks[s].id, s))
                 => /\ peers' = peers
                    /\ sent' = {}
                    /\ clientEvents' = <<>>]_vars

\* A non-initiator peer has just been created for an accepted offer: its
\* answer is sent and peer-created is emitted.
C3_Witness ==
    /\ \E p \in peers : ~p.initiator /\ p.allowed
    /\ sent # {}
    /\ clientEvents # <<>>
    /\ clientEvents[1].name = "peer-created"

\* C8: document-added is emitted at most once for an id, exactly when the id
\* enters the registry; a setDocument for an id the registry holds emits
\* document-updated and leaves the stored document merged with the offered one.
C8_SetDocumentIdempotent ==
    [][\A id \in DocumentIds :
          /\ docAdded'[id] <= 1
          /\ (id \in DOMAIN documents') <=> (docAdded'[id] = 1)
          /\ \A e \in Range(clientEvents') :
                 /\ (e.name = "document-added" /\ e.payload = id) =>
                        /\ id \notin DOMAIN documents
                        /\ id \in DOMAIN documents'
                        /\ docAdded'[id] = docAdded[id] + 1
                 /\ (e.name = "document-updated" /\ e.payload = id) =>
                        /\ id \in DOMAIN documents
                        /\ docAdded'[id] = docAdded[id]
                        /\ \E h \in ClientHeaders, c \in ClientCrdts :
                               documents'[id] =
                                   DocMergeDocument(
                                       documents[id],
                                       [header |-> h, data |-> c,
                                        destroyed |-> FALSE]).doc]_vars

\* A setDocument for an id already in the registry, made by a findDocument
\* that had missed the document in memory: document-updated is emitted.
C8_Witness ==
    \E s \in Senders :
        /\ tasks[s].pc = "result"
        /\ tasks[s].rawHeader # <<>>
        /\ docAdded[tasks[s].id] = 1
        /\ clientEvents # <<>>
        /\ clientEvents[1].name = "document-updated"


\* C4: for headers of equal address, updateHeader succeeds if and only if the
\* offered version is strictly greater and the offered header's signature
\* verifies under the current owner; on equal version the current header stays.
C4_HeaderMonotonicity ==
    (lastOp.op = "updateHeader"
        /\ lastOp.arg.address = lastOp.pre.header.address) =>
        /\ lastOp.ret <=>
               /\ lastOp.arg.version > lastOp.pre.header.version
               /\ verifySignature(HeaderBody(lastOp.arg), lastOp.arg.signature,
                                   lastOp.pre.header.owner)
        /\ lastOp.arg.version = lastOp.pre.header.version =>
               doc.header = lastOp.pre.header

\* A correctly signed header of the same address and the same version but with
\* other content is refused.
C4_Witness ==
    /\ lastOp.op = "updateHeader"
    /\ lastOp.arg.address = lastOp.pre.header.address
    /\ lastOp.arg.version = lastOp.pre.header.version
    /\ HeaderSignedBy(lastOp.arg, lastOp.pre.header.owner)
    /\ lastOp.arg # lastOp.pre.header
    /\ ~lastOp.ret

\* C5: a refused updateHeader (other address, version not strictly greater or
\* invalid signature) returns false, emits nothing and changes neither header
\* nor data; an accepted one returns true, installs the header and emits
\* exactly one header-updated event carrying it.
C5_UpdateHeaderFrame ==
    lastOp.op = "updateHeader" =>
        LET refused ==
                \/ lastOp.arg.address # lastOp.pre.header.address
                \/ lastOp.arg.version <= lastOp.pre.header.version
                \/ ~HeaderSignedBy(lastOp.arg, lastOp.pre.header.owner)
        IN  /\ lastOp.ret = ~refused
            /\ refused =>
                   /\ lastOp.events = <<>>
                   /\ doc = lastOp.pre
            /\ ~refused =>
                   /\ doc.header = lastOp.arg
                   /\ doc.data = lastOp.pre.data
                   /\ doc.destroyed = lastOp.pre.destroyed
                   /\ lastOp.events = <<Event("header-updated", lastOp.arg)>>

\* An accepted upgrade of a document that holds changes.
C5_Witness ==
    /\ lastOp.op = "updateHeader"
    /\ lastOp.ret
    /\ doc.data # AInit
    /\ doc.header.allowedUsers # lastOp.pre.header.allowedUsers

\* C6: over updateHeader, mergeDocument and registry setDocument the header
\* version never decreases and the address never changes; an offered header
\* of a lower version leaves the current header in place.
C6_VersionNeverDecreases ==
    lastOp.op # "idle" =>
        /\ doc.header.version >= lastOp.pre.header.version
        /\ doc.header.address = lastOp.pre.header.address
        /\ (lastOp.op = "updateHeader"
                /\ lastOp.arg.version < lastOp.pre.header.version) =>
               (~lastOp.ret /\ doc.header = lastOp.pre.header)
        /\ (lastOp.op \in {"mergeDocument", "setDocument"}
                /\ lastOp.arg.header.version < lastOp.pre.header.version) =>
               doc.header = lastOp.pre.header

\* A version-1 header of the same address, signed by the owner, offered through
\* setDocument after the document reached version 2.
C6_Witness ==
    /\ lastOp.op = "setDocument"
    /\ lastOp.pre.header.version = 2
    /\ lastOp.arg.header.version = 1
    /\ lastOp.arg.header.address = doc.header.address
    /\ HeaderSignedBy(lastOp.arg.header, lastOp.pre.header.owner)
    /\ doc.header.version = 2

\* C7: mergeDocument merges the other document's CRDT state both when the other
\* header is an accepted upgrade and when it equals the current header.
C7_MergeOnEqualHeader ==
    (lastOp.op = "mergeDocument"
        /\ (\/ UpgradeAccepts(lastOp.pre.header, lastOp.arg.header)
            \/ lastOp.arg.header = lastOp.pre.header)) =>
        doc.data = AMerge(lastOp.pre.data, lastOp.arg.data)

\* Whether a payload is an object that passes the schema of message type T.
PassesSchema(data, T) ==
    /\ data[1] = "object"
    /\ \E sc \in Schemas :
          /\ sc.type = <<"literal", T>>
          /\ \A k \in DOMAIN sc :
                 k \in DOMAIN data[2] /\ FieldAccepts(sc[k], data[2][k])

PassesUnion(data) ==
    \E T \in {"request-document", "document-response", "signal"} :
        PassesSchema(data, T)

\* C9: an inbound message whose data fails the union schema emits no event,
\* and no run of the handler throws; the exchanger still handles the messages
\* that follow a rejected one.
C9_SchemaFiltering ==
    exLast.client # "none" =>
        /\ Len(exLast.runs) = listeners[exLast.client]
        /\ \A i \in DOMAIN exLast.runs :
               /\ ~exLast.runs[i].threw
               /\ ~PassesUnion(exLast.message.data) =>
                      exLast.runs[i].events = <<>>
               /\ (exDropped > 0 /\ PassesUnion(exLast.message.data)) =>
                      exLast.runs[i].events # <<>>

\* The payload {type: "request-document", documentId: 42} is dropped by an
\* exchanger that had already dropped a message before.
C9_Witness ==
    /\ exLast.client = clientHandler
    /\ exLast.message.data =
           Obj([type |-> Str("request-document"), documentId |-> Num(42)])
    /\ Len(exLast.runs) = 1
    /\ exLast.runs[1].events = <<>>
    /\ exDropped = 2

\* C10: every event emitted under name T carries data that passes the schema
\* of T with data.type = T and the sender of the inbound message; a valid
\* inbound message from the current client yields exactly one event.
C10_TypedEvents ==
    exLast.client # "none" =>
        /\ \A i \in DOMAIN exLast.runs :
               \A j \in DOMAIN exLast.runs[i].events :
                  LET ev == exLast.runs[i].events[j]
                  IN  /\ PassesSchema(ev.message.data, ev.name)
                      /\ ev.message.data[2].type = Str(ev.name)
                      /\ ev.message.from = exLast.message.from
        /\ (PassesUnion(exLast.message.data)
                /\ exLast.client = clientHandler) =>
               /\ Len(exLast.runs) = 1
               /\ Len(exLast.runs[1].events) = 1

\* A valid request-document with an extra field is emitted once, under
\* request-document, without the extra field.
C10_Witness ==
    /\ exLast.client = clientHandler
    /\ exLast.message.data =
           Obj([type |-> Str("request-document"), documentId |-> Str("d1"),
                extra |-> Str("more")])
    /\ Len(exLast.runs) = 1
    /\ Len(exLast.runs[1].events) = 1
    /\ exLast.runs[1].events[1].name = "request-document"
    /\ "extra" \notin DOMAIN exLast.runs[1].events[1].message.data[2]

\* C11: sendMessage with no signaling client fails and calls nothing; with
\* data that does not pass the union it rejects and never calls the client's
\* sendMessage; with data that passes it resolves after exactly one call on
\* the current client, with the same recipient and the parsed data.
C11_SendMessage ==
    lastSend.op = "sendMessage" =>
        IF lastSend.client = "none"
        THEN lastSend.result = "Error" /\ lastSend.calls = <<>>
        ELSE IF ~PassesUnion(lastSend.data)
        THEN lastSend.result = "ZodError" /\ lastSend.calls = <<>>
        ELSE /\ lastSend.result = "resolved"
             /\ Len(lastSend.calls) = 1
             /\ lastSend.calls[1].client = lastSend.client
             /\ lastSend.calls[1].message.to = lastSend.to
             /\ PassesUnion(lastSend.calls[1].message.data)
             /\ \A k \in DOMAIN lastSend.calls[1].message.data[2] :
                    lastSend.calls[1].message.data[2][k] = lastSend.data[2][k]
             /\ "extra" \notin DOMAIN lastSend.calls[1].message.data[2]

\* A request-document whose documentId is a number is rejected without a call
\* on the signaling client the exchanger is set to.
C11_Witness ==
    /\ lastSend.op = "sendMessage"
    /\ lastSend.client # "none"
    /\ lastSend.data =
           Obj([type |-> Str("request-document"), documentId |-> Num(42)])
    /\ lastSend.result = "ZodError"
    /\ lastSend.calls = <<>>

\* C12: requestDocument sends the request-document broadcast; its promise
\* resolves only with a document the registry holds, found by the lookup or
\* announced by document-<id>; it rejects only when the lookup found nothing
\* and the timer has fired; and a pending call always settles, with the
\* document whenever the lookup found it or the event fired in time.
C12_RequestDocumentSettles ==
    /\ [][(request.status = "none" /\ request'.status = "pending") =>
              sent' = {[to |-> Undefined,
                        data |-> Obj([type |-> Str("request-document"),
                                      documentId |-> Str(request'.id)])]}]_vars
    /\ [](request.status = "resolved" =>
              /\ request.id \in DOMAIN documents
              /\ \/ LookupPromise(tasks[Caller]) = "fulfilled"
                 \/ request.race = "fired")
    /\ [](request.status = "rejected" =>
              /\ LookupPromise(tasks[Caller]) = "rejected"
              /\ request.race = "timedOut")
    /\ (request.status = "pending")
           ~> (request.status \in {"resolved", "rejected"})
    /\ (/\ request.status = "pending"
        /\ \/ LookupPromise(tasks[Caller]) = "fulfilled"
           \/ request.race = "fired")
           ~> (request.status = "resolved")

\* A call whose lookup found nothing, resolved by the document-<id> event of
\* a document that arrived before the timer fired.
C12_Witness ==
    /\ request.status = "resolved"
    /\ request.race = "fired"
    /\ LookupPromise(tasks[Caller]) = "rejected"

\* C13: a requestDocument that rejects does so with the timed-out error.
C13_TimeoutError ==
    request.status = "rejected" => request.error = "Document request timed out"

\* C14: in every state where no requestDocument is pending, the handler of
\* any valid document-response registers its document: added when the id is
\* new, merged into the stored document otherwise; the registry never loses
\* an id, and a findDocument for an id it holds finds the document.
C14_UnrequestedResponse ==
    /\ [](\A rawDocument \in DocumentResponses :
              LET imported == DocImport(rawDocument)
              IN  (imported.ok /\ request.status # "pending") =>
                      LET id == DocumentId(imported.doc)
                          r  == OnDocumentResponse(request, documents,
                                                   imported.doc)
                      IN  /\ id \in DOMAIN r.documents
                          /\ r.events # <<>>
                          /\ r.documents[id] =
                                 IF id \in DOMAIN documents
                                 THEN DocMergeDocument(documents[id],
                                                       imported.doc).doc
                                 ELSE imported.doc)
    /\ [][/\ DOMAIN documents \subseteq DOMAIN documents'
          /\ \A s \in DOMAIN tasks :
                 (/\ tasks[s].pc = "find"
                  /\ tasks[s].id \in DOMAIN documents
                  /\ tasks'[s] # tasks[s])
                     => (tasks'[s].pc = "result" /\ tasks'[s].found)]_vars

\* A document that arrived after its requestDocument had timed out has just
\* been added to the registry.
C14_Witness ==
    /\ request.status = "rejected"
    /\ request.id \in DOMAIN documents
    /\ clientEvents # <<>>
    /\ clientEvents[1].name = "document-added"

\* C15: for every document of the registry, writing it with
\* storage.setDocument and looking its id up on a fresh registry over that
\* storage yields a document of the same id and header whose heads equal the
\* original's, added to the fresh registry; and a lookup that loads from the
\* storage leaves the document in the registry, with the heads of the stored
\* binary when the registry did not hold it.
C15_StorageRoundTrip ==
    /\ [](\A id \in DOMAIN documents :
              LET st     == StorageSetDocument(storage, documents[id])
                  loaded == DocFromRawHeader(st[id].header,
                                             StorageLoadBinary(st, id)[1])
              IN  /\ loaded.ok
                  /\ LET r == FindDocumentAdopt(NoDocuments, loaded.doc)
                     IN  /\ DOMAIN r.documents = {id}
                         /\ r.documents[id].header = documents[id].header
                         /\ getHeads(r.documents[id].data) =
                                getHeads(documents[id].data)
                         /\ r.events = <<Event("document-added", id)>>)
    /\ [][\A s \in DOMAIN tasks :
              (tasks[s].pc = "loadBinary" /\ tasks'[s].pc = "result") =>
                  /\ tasks'[s].found
                  /\ tasks[s].id \in DOMAIN documents'
                  /\ tasks[s].id \notin DOMAIN documents =>
                         /\ getHeads(documents'[tasks[s].id].data) =
                                getHeads(storage[tasks[s].id].binary[1])
                         /\ HeaderExport(documents'[tasks[s].id].header) =
                                tasks[s].rawHeader[1]]_vars

\* A lookup on a fresh registry has just loaded, from the storage of an
\* earlier session, a document that holds a change.
C15_Witness ==
    /\ tasks[Caller].pc = "result"
    /\ tasks[Caller].found
    /\ tasks[Caller].rawHeader # <<>>
    /\ clientEvents # <<>>
    /\ clientEvents[1].name = "document-added"
    /\ documents[tasks[Caller].id].data # AInit
    /\ getHeads(documents[tasks[Caller].id].data) =
           getHeads(storage[tasks[Caller].id].binary[1])

\* C16: an export, made with the owner's private key, of a document whose
\* header is signed by its owner (as create signs it) imports: the imported
\* document has the address, owner, version, allowed users and metadata of
\* the exported one, its header signature verifies under the owner, and its
\* heads and data are those of the exported document.
C16_ExportImportRoundTrip ==
    (/\ lastOp.op = "export"
     /\ getPublicKey(lastOp.arg) = lastOp.pre.header.owner
     /\ HeaderSignedBy(lastOp.pre.header, lastOp.pre.header.owner)) =>
        /\ lastOp.ret.ok
        /\ LET imported == DocImport(Encode(lastOp.ret))
           IN  /\ imported.ok
               /\ imported.doc.header.address = lastOp.pre.header.address
               /\ imported.doc.header.owner = lastOp.pre.header.owner
               /\ imported.doc.header.version = lastOp.pre.header.version
               /\ imported.doc.header.allowedUsers =
                      lastOp.pre.header.allowedUsers
               /\ imported.doc.header.metadata = lastOp.pre.header.metadata
               /\ HeaderSignedBy(imported.doc.header,
                                 lastOp.pre.header.owner)
               /\ getHeads(imported.doc.data) = getHeads(lastOp.pre.data)
               /\ imported.doc.data = lastOp.pre.data

\* The owner has just exported a document that holds a change and carries an
\* upgraded header.
C16_Witness ==
    /\ lastOp.op = "export"
    /\ getPublicKey(lastOp.arg) = lastOp.pre.header.owner
    /\ HeaderSignedBy(lastOp.pre.header, lastOp.pre.header.owner)
    /\ lastOp.ret.ok
    /\ lastOp.pre.data # AInit
    /\ lastOp.pre.header.version = 2
    /\ DocImport(Encode(lastOp.ret)).ok

\* C20: once the document is destroyed, change, load, updateHeader and
\* mergeDocument leave its CRDT state and its header as they were and emit
\* nothing.
C20_DestroyedNoOp ==
    [][(/\ doc.destroyed
        /\ lastOp'.op \in {"change", "load", "updateHeader", "mergeDocument"})
           => /\ doc'.data = doc.data
              /\ doc'.header = doc.header
              /\ lastOp'.events = <<>>]_vars

\* The client holds the shared document.
HoldsDocument(c) == replica[c] # <<>>

\* Both synchronizers hold the connected peer for the document.
BothAttached ==
    \A c \in Clients :
        /\ rtc[c] = "connected"
        /\ synchronizers[c].attached

\* The two documents have the same heads.
HeadsEqual ==
    /\ \A c \in Clients : HoldsDocument(c)
    /\ getHeads(replica["A"][1].data) = getHeads(replica["B"][1].data)

\* C17: once both synchronizers hold the connected peer, with the local
\* changes coming to an end (each client makes at most MaxSeq of them) and
\* every sync message delivered, the two documents eventually have the same
\* heads and keep them.
C17_Convergence == [](BothAttached => <>[]HeadsEqual)

\* Both clients changed the document over the connected peer, every sync
\* message was delivered and both hold both changes.
C17_Witness ==
    /\ BothAttached
    /\ HeadsEqual
    /\ \A c \in Clients : channel[c] = <<>>
    /\ \A c \in Clients :
           {<<"a", 1>>, <<"b", 1>>} \subseteq replica[c][1].data

\* Nothing is in flight: no signaling message, no sync message, and no
\* document-added handler at its storage write.
Quiet ==
    \A c \in Clients :
        /\ signaling[c] = <<>>
        /\ channel[c] = <<>>
        /\ added[c] # "write"

\* C18: once B has called requestDocument for the document A holds with B
\* allowed and everything in flight has arrived, B holds the document, the
\* peer is connected and held by both synchronizers, and the changes A made
\* are in B's document.
C18_RequestThenSync ==
    (requested /\ Quiet) =>
        /\ HoldsDocument("B")
        /\ BothAttached
        /\ replica["A"][1].data \subseteq replica["B"][1].data

\* C19: when A, with the peer held by both synchronizers, has installed the
\* version-2 header that adds C and then changes the document, then once B's
\* document holds that change B's header eventually has version 2 and A, B
\* and C as allowed users.
C19_HeaderOverSync ==
    []((/\ BothAttached
        /\ replica["A"][1].header = UpgradedHeader
        /\ <<"a", 1>> \notin replica["A"][1].data)
           => []((/\ HoldsDocument("B")
                  /\ <<"a", 1>> \in replica["B"][1].data)
                    => <>(/\ HoldsDocument("B")
                          /\ replica["B"][1].header.version = 2
                          /\ {getPublicKey(1), getPublicKey(2),
                               getPublicKey(3)}
                                 \subseteq
                                 replica["B"][1].header.allowedUsers)))

\* C25: the owner's public key is an allowed user of every header a document
\* holds (after create and after every accepted upgrade), so export with the
\* owner's private key succeeds whatever list of allowed users the document
\* was created with, the empty one included.
C25_OwnerAlwaysAllowed ==
    /\ hasAllowedUser(doc.header, doc.header.owner)
    /\ (/\ lastOp.op = "export"
        /\ getPublicKey(lastOp.arg) = lastOp.pre.header.owner)
           => /\ lastOp.ret.ok
              /\ HeaderVerifySignature(lastOp.pre.header, lastOp.ret.content,
                                       lastOp.ret.signature)

\* The owner exports a document created with an empty list of allowed users.
C25_Witness ==
    /\ lastOp.op = "export"
    /\ lastOp.pre = DocCreate(1, {}, "x", 1)
    /\ getPublicKey(lastOp.arg) = lastOp.pre.header.owner
    /\ lastOp.ret.ok

\* The change events among the events of a call, in emission order.
ChangeEvents(events) == SelectSeq(events, LAMBDA e : e.name = "change")

\* The change events update emits for a mutation from one state to another.
ExpectedChange(before, after) ==
    IF getHeads(before) # getHeads(after)
    THEN <<Event("change", after)>>
    ELSE <<>>

\* C27: update emits one change event exactly when the heads of the new state
\* differ from the current heads and replaces the state with the new state in
\* every case; every mutating call emits its change event within the call
\* (so change events follow the order of the mutations) and the event
\* carries the data that the mutation produced.
C27_UpdateEmitsChange ==
    /\ lastOp.op = "change" =>
           /\ doc.data = AChange(lastOp.pre.data, lastOp.arg)
           /\ lastOp.ret = doc.data
           /\ ChangeEvents(lastOp.events)
                  = ExpectedChange(lastOp.pre.data, doc.data)
    /\ (lastOp.op = "mergeDocument" /\ lastOp.ret) =>
           /\ doc.data = AMerge(lastOp.pre.data, lastOp.arg.data)
           /\ ChangeEvents(lastOp.events)
                  = ExpectedChange(lastOp.pre.data, doc.data)

\* A merge that brought nothing new: update replaced the state and emitted no
\* change event.
C27_Witness ==
    /\ lastOp.op = "mergeDocument"
    /\ lastOp.ret
    /\ lastOp.pre.data # AInit
    /\ lastOp.arg.data # AInit
    /\ getHeads(doc.data) = getHeads(lastOp.pre.data)
    /\ ChangeEvents(lastOp.events) = <<>>

\* C26: a call of change or updateHeader made while a listener that throws or
\* rejects is registered returns what it returns, and leaves the CRDT state
\* and the header it leaves, when no listener is registered.
C26_FireAndForget ==
    (lastOp.op \in {"change", "updateHeader"} /\ lastOp.handler # "none") =>
        \E r \in {IF lastOp.op = "change"
                   THEN DocChange(lastOp.pre, lastOp.arg)
                   ELSE DocUpdateHeader(lastOp.pre, lastOp.arg)} :
            /\ doc = r.doc
            /\ lastOp.ret = r.ret
            /\ lastOp.events = r.events

\* A change whose change and patch events reached a listener that throws.
C26_Witness ==
    /\ lastOp.op = "change"
    /\ lastOp.handler = "throws"
    /\ lastOp.promise = "rejected"
    /\ ChangeEvents(lastOp.events) # <<>>
    /\ doc.data # lastOp.pre.data

\* C28: once requestDocument has been rejected after its timer fired, the
\* document-<id> listener the call subscribed is no longer subscribed.
C28_TimeoutDropsListener ==
    (request.status = "rejected" /\ request.race = "timedOut")
        => ~request.listener

\* Whether the header signature or the content signature of an exported
\* document fails to verify under the owner the header declares.
InvalidResponse(raw) ==
    LET h == [address |-> raw.header[1], owner |-> raw.header[2],
              version |-> raw.header[3],
              allowedUsers |-> Range(raw.header[4]),
              metadata |-> raw.header[5], signature |-> raw.header[6]]
    IN  \/ ~verifySignature(HeaderBody(h), h.signature, h.owner)
        \/ ~verifySignature(raw.content, raw.signature, h.owner)

\* C24: the handler of a document-response whose header signature or content
\* signature is invalid ends with the import's error and changes neither the
\* registry and its documents nor the storage, and starts no storage write.
C24_InvalidResponseDropped ==
    [][(/\ response.at = "idle"
        /\ response'.at = "handled"
        /\ InvalidResponse(response'.raw))
          => /\ response'.error \in {"InvalidHeader", "DocumentValidationError"}
             /\ UNCHANGED <<documents, storage, addedTask, pendingWrites,
                            docAdded>>]_vars

\* A response with a valid header and a content signature of another key has
\* been dropped by a client that holds the document.
C24_Witness ==
    /\ response.at = "handled"
    /\ response.error = "DocumentValidationError"
    /\ documents # NoDocuments
    /\ storage # <<>>

\* C22: the step that completes disconnect() leaves no peer: every peer that
\* existed is destroyed with peer-destroyed emitted and a bye sent to its
\* remote, and the registry's documents and the storage are as before.
C22_DisconnectTearsDown ==
    [][(connected /\ ~connected')
          => /\ peers' = {}
             /\ \A p \in peers :
                    /\ \E e \in Range(clientEvents') :
                           e = Event("peer-destroyed",
                                     <<p.documentId, p.remote>>)
                    /\ \E m \in sent' :
                           /\ m.to = p.remote
                           /\ m.data = SignalMessage(p.documentId, <<"bye">>)
             /\ documents' = documents
             /\ storage' = storage]_vars

\* The storage pipeline of the document is at rest: the listeners of the
\* document-added handler are in place, no call of the storage is left and
\* the timer of the throttled save is idle.
PipeQuiet(id) ==
    /\ Listening(id)
    /\ jobs[id] = <<>>
    /\ timer[id] = "idle"

\* C21: once the storage pipeline of a document is at rest, the stored binary
\* is the save of the document's current state: after any burst of changes a
\* save has run after the last change and has persisted it.
C21_FinalChangeSaved ==
    \A id \in DOMAIN documents :
        PipeQuiet(id) => storage[id].binary = <<ASave(documents[id].data)>>

\* The changes of the binary stored for the id; none while no binary is.
StoredData(st, id) ==
    IF id \in DOMAIN st /\ st[id].binary # <<>> THEN st[id].binary[1] ELSE AInit

\* C30: at most one call of the storage per document id is under way at any
\* time, whichever handler made it (document-added, document-updated,
\* header-updated or the throttled save), and no write replaces the stored
\* binary by an older state: every change stored stays stored.
C30_SerializedWrites ==
    /\ [](\A id \in DocumentIds :
              Cardinality({i \in DOMAIN jobs[id] :
                              jobs[id][i].pc # "queued"}) <= 1)
    /\ [][\A id \in DOMAIN storage :
              StoredData(storage, id) \subseteq StoredData(storage', id)]_vars

\* A setDocument has its binary on the way while a throttled save waits
\* behind it and the document has moved on since the binary was taken.
C30_Witness ==
    \E id \in DOMAIN documents :
        /\ Len(jobs[id]) >= 2
        /\ jobs[id][1].op = "setDocument"
        /\ jobs[id][1].pc = "put"
        /\ jobs[id][2].op = "save"
        /\ jobs[id][1].data # <<ASave(documents[id].data)>>
        /\ StoredData(storage, id) # AInit

\* C29: storage.setDocument has written the header record before it takes
\* and writes the binary; and a lookup that loads a document whose header is
\* stored and whose binary is not (the binary write failed), into a registry
\* that does not hold it, ends with a live document under the stored header,
\* with empty CRDT content, registered.
C29_PartialWriteReloads ==
    /\ [](\A id \in DocumentIds :
              \A i \in DOMAIN jobs[id] :
                  (jobs[id][i].op = "setDocument" /\ jobs[id][i].pc = "put")
                      => id \in DOMAIN storage)
    /\ [][\A s \in DOMAIN tasks :
              (/\ tasks[s].pc = "loadBinary"
               /\ tasks'[s].pc = "result"
               /\ tasks[s].id \notin DOMAIN documents
               /\ storage[tasks[s].id].binary = <<>>)
                  => /\ tasks'[s].found
                     /\ tasks[s].id \in DOMAIN documents'
                     /\ documents'[tasks[s].id].data = AInit
                     /\ ~documents'[tasks[s].id].destroyed
                     /\ HeaderExport(documents'[tasks[s].id].header) =
                            storage[tasks[s].id].header]_vars

\* After a binary write failed, a later session has just loaded the document
\* from the header alone.
C29_Witness ==
    /\ faults > 0
    /\ tasks[Caller].pc = "result"
    /\ tasks[Caller].found
    /\ tasks[Caller].id \in DOMAIN storage
    /\ storage[tasks[Caller].id].binary = <<>>
    /\ tasks[Caller].id \in DOMAIN documents
    /\ documents[tasks[Caller].id].data = AInit
    /\ addedTask[tasks[Caller].id] = "write"

\* C23: a step in which the binary write of a throttled save fails leaves the
\* save to be attempted again (a save of the document queued or its timer
\* armed) or emits storage-error: the failure is not silently lost.
C23_FailedSaveSurfaces ==
    [][\A id \in DocumentIds :
          (/\ faults' = faults + 1
           /\ jobs[id] # <<>>
           /\ jobs[id][1].op = "save"
           /\ jobs[id][1].pc = "put"
           /\ Len(jobs'[id]) < Len(jobs[id]))
              => \/ \E j \in DOMAIN jobs'[id] : jobs'[id][j].op = "save"
                 \/ timer'[id] = "armed"
                 \/ \E e \in Range(clientEvents') :
                        e.name = "storage-error"]_vars

\* C37: after any sequence of setClient calls the exchanger has exactly one
\* subscription, on the client set last, and none on any other client: a
\* message a client emits is handled once when it is the current client and
\* not at all otherwise, also when setClient was called again with the
\* current client.
C37_SingleSubscription ==
    /\ clientHandler # "none" =>
           \A c \in SignalingClients :
               listeners[c] = IF c = clientHandler THEN 1 ELSE 0
    /\ exLast.client # "none" =>
           Len(exLast.runs) = IF exLast.client = clientHandler THEN 1 ELSE 0

\* C37 witness: the exchanger was set to c1, then to c2, then to c2 again,
\* and a message of c1 has been handled by no listener.
C37_Witness ==
    /\ setLog = [before |-> "c1", again |-> TRUE]
    /\ clientHandler = "c2"
    /\ exLast.client = "c1"
    /\ exLast.runs = <<>>
    /\ safeParse(Schemas, exLast.message.data).success

\* The close events among the events a connection has emitted.
CloseEvents(w) == {i \in DOMAIN w.emitted : w.emitted[i][1] = "close"}

\* C38: a WebSocketConnection emits at most one close event in its lifetime,
\* and once close(cause) has been called it emits no further event.
C38_CloseTerminal ==
    /\ Cardinality(CloseEvents(ws)) <= 1
    /\ ws.closed => Len(ws.emitted) = ws.atClose

\* C40: a waitForConnection() called after connect() returns only once a
\* connect event has followed that connect() call, and what it returns is the
\* connected status of the client at the moment it returns.
C40_WaitForConnection ==
    \A i \in DOMAIN waits :
        waits[i].state = "returned" =>
            /\ waits[i].after > 0 => waits[i].followed
            /\ waits[i].result = waits[i].status

\* C40 witness: two calls made after connect() have returned, one with true
\* and one with false, the second of them made after a second connect().
C40_Witness ==
    /\ Len(waits) = 2
    /\ \A i \in DOMAIN waits : waits[i].state = "returned"
    /\ waits[1].after = 1
    /\ waits[2].after = 2
    /\ {waits[1].result, waits[2].result} = {TRUE, FALSE}

\* C33: an export made with the private key of any allowed user of the
\* document, the owner or not, is accepted by Document.import.
C33_AllowedUserShares ==
    (/\ lastOp.op = "export"
     /\ hasAllowedUser(lastOp.pre.header, getPublicKey(lastOp.arg))
     /\ HeaderSignedBy(lastOp.pre.header, lastOp.pre.header.owner)) =>
        /\ lastOp.ret.ok
        /\ DocImport(Encode(lastOp.ret)).ok

\* The share-document event of the handler of a sender.
ShareEvent(s) == Event("share-document", <<tasks[s].id, s>>)

\* The document-response messages among the messages handed to the signaling
\* client for a sender.
ResponsesTo(messages, s) ==
    {m \in messages :
        /\ m.to = s
        /\ m.data[2].type = Str("document-response")}

\* C36: in the request-document handler the document-response is sent
\* before share-document is emitted, and share-document is emitted before
\* the initiator peer is created; when the export throws or the send
\* rejects, the handler ends without share-document and without a peer.
C36_SendShareCreate ==
    [][\A s \in Senders :
          /\ (tasks[s].pc # "share" /\ tasks'[s].pc = "share") =>
                 /\ tasks[s].pc = "result"
                 /\ ResponsesTo(sent', s) # {}
                 /\ clientEvents' = <<>>
                 /\ peers' = peers
          /\ (\E i \in DOMAIN clientEvents' :
                  /\ clientEvents'[i] = ShareEvent(s)
                  /\ tasks[s].kind = "request") =>
                 /\ tasks[s].pc = "share"
                 /\ tasks'[s].pc = "peer"
                 /\ peers' = peers
          /\ (\E p \in peers' \ peers : p.initiator /\ p.remote = s) =>
                 tasks[s].pc = "peer"
          /\ (/\ tasks[s].kind = "request"
              /\ tasks[s].pc = "result"
              /\ tasks'[s].pc # "result"
              /\ ResponsesTo(sent', s) = {}) =>
                 /\ tasks'[s] = NoTask
                 /\ clientEvents' = <<>>
                 /\ peers' = peers]_vars

\* C36 witness: the handler of a sender has sent the document-response and
\* emitted share-document, and its last step has created the initiator peer,
\* whose offer went out.
C36_Witness ==
    \E s \in Senders :
        \E p \in peers :
            /\ p.initiator
            /\ p.remote = s
            /\ clientEvents = <<Event("peer-created", <<p.documentId, s>>)>>
            /\ sent # {}
            /\ tasks[s] = NoTask

C35_PeersAttached ==
    (/\ \A s \in Senders : tasks[s] = NoTask
     /\ \A id \in DOMAIN documents : addedTask[id] = "done")
    => \A p \in peers :
           p.documentId \in DOMAIN documents
           => /\ p.documentId \in DOMAIN syncMap
              /\ p \in syncMap[p.documentId]

\* C32: a client that has removed the document has no live synchronizer for
\* it: none that exists, and none that holds a peer to send sync messages to
\* or to take inbound data from.
C32_SynchronizerDropped ==
    \A c \in Clients :
        replica[c] = <<>>
        => ~synchronizers[c].exists /\ ~synchronizers[c].attached

\* C31: once deleteDocument of an id is complete, the storage holds no
\* record of the id, neither then nor at any later time.
C31_DeletedStaysDeleted ==
    \A id \in DocumentIds : deletion[id] = "done" => id \notin DOMAIN storage

====
